---- MODULE Spec2Model ----
(***************************************************************************)
(* Model of the C# JSON-ization generator of aas-core-codegen               *)
(* (aas_core_codegen/csharp/jsonization/_generate.py) together with the    *)
(* behaviour of the deserialization and serialization routines it emits.   *)
(*                                                                         *)
(* A nullable C# reference is modelled as a sequence of length 0 (null)    *)
(* or 1 (the value), so that "result" and "error" stay two independent     *)
(* nullable outputs, exactly as the two out-values of the emitted code.    *)
(***************************************************************************)
EXTENDS Integers, Sequences, FiniteSets, TLC

VARIABLES symbol_table, spec_impls, generated, routine, node, that, json, out,
          facade, call, pc, given, yielded, runtime

vars == <<symbol_table, spec_impls, generated, routine, node, that, json, out,
          facade, call, pc, given, yielded, runtime>>

(***************************************************************************)
(* Bounds of the model.                                                    *)
(***************************************************************************)
\* The longest list of an instance.
MaxItems == 2

(***************************************************************************)
(* Nullable references.                                                    *)
(***************************************************************************)
Null == <<>>

Some(x) == <<x>>

(***************************************************************************)
(* Numbers.  A number is hi * 2^53 + lo (+ 1/2 when half), which keeps the *)
(* 64-bit integers and the doubles beyond the 32-bit integers of TLC.      *)
(* The model uses hi = 0 with a small lo, hi = 1 with 0 <= lo < 8 and      *)
(* hi = LongLimitHi with lo = 0 (that is 2^63, the first integer above     *)
(* the 64-bit range).                                                      *)
(***************************************************************************)
Num(hi, lo, half) == [hi |-> hi, lo |-> lo, half |-> half]

Int64(n) == Num(0, n, FALSE)

\* 2^63 / 2^53: the numbers with hi >= LongLimitHi do not fit a C# long.
LongLimitHi == 1024

FitsLong(n) == ~n.half /\ n.hi < LongLimitHi /\ n.hi >= -LongLimitHi

\* (double)n for an integer n: exact below 2^53, and rounded to the nearest
\* even multiple of 2 in [2^53, 2^54).
ToDouble(n) ==
    IF n.hi = 1 /\ n.lo % 2 = 1
    THEN IF ((n.lo - 1) \div 2) % 2 = 0
         THEN [n EXCEPT !.lo = n.lo - 1]
         ELSE [n EXCEPT !.lo = n.lo + 1]
    ELSE n

(***************************************************************************)
(* JSON nodes (System.Text.Json.Nodes).  A member of an object is a        *)
(* key-value pair, kept in document order; the value of a member and an    *)
(* item of an array may be the JSON null.  A value node holds a value: a   *)
(* node made with JsonValue.Create holds the boolean, the long, the double *)
(* or the string it was made of, a node of a parsed document holds the     *)
(* JsonElement of the document.  The text of a number is what             *)
(* ToJsonString() writes for it: the digits of a long, the shortest        *)
(* round-trippable text of a double, the text of the document for a        *)
(* JsonElement.                                                            *)
(***************************************************************************)
JsonElement == "System.Text.Json.JsonElement"

\* long.ToString()
LongToString(n) ==
    IF n.hi = 0 THEN ToString(n.lo)
    ELSE IF n.hi = 1 THEN "900719925474099" \o ToString(2 + n.lo)
    ELSE "9223372036854775808"

\* double.ToString(): the exponent notation from 10^15 on.
DoubleToString(n) ==
    IF n.hi = 0 THEN ToString(n.lo) \o (IF n.half THEN ".5" ELSE "")
    ELSE IF n.hi = 1
    THEN (IF ToDouble(n).lo = 8 THEN "9.007199254741"
          ELSE "9.00719925474099" \o ToString(2 + ToDouble(n).lo))
         \o "E+15"
    ELSE "9.223372036854776E+18"

JNull == [kind |-> "null", v |-> 0]

\* JsonValue.Create(bool)
JBool(b) == [kind |-> "bool", v |-> b, holds |-> "System.Boolean", text |-> ""]

\* JsonValue.Create(long)
JLong(n) == [kind |-> "num", v |-> n, holds |-> "System.Int64", text |-> LongToString(n)]

\* JsonValue.Create(double)
JDouble(n) ==
    [kind |-> "num", v |-> ToDouble(n), holds |-> "System.Double", text |-> DoubleToString(n)]

\* JsonValue.Create(string)
JStr(s) == [kind |-> "str", v |-> s, holds |-> "System.String", text |-> ""]

JArr(items) == [kind |-> "arr", v |-> items]

JObj(members) == [kind |-> "obj", v |-> members]

Member(key, value) == [key |-> key, value |-> value]

IsJsonValue(n) == n.kind \in {"bool", "num", "str"}

\* JsonNode.Parse(node.ToJsonString()): the document read from its text;
\* every value node holds a JsonElement.
RECURSIVE JsonNodeParse(_)
JsonNodeParse(n) ==
    CASE n.kind = "obj" ->
            JObj([i \in DOMAIN n.v |-> Member(n.v[i].key, JsonNodeParse(n.v[i].value))])
      [] n.kind = "arr" -> JArr([i \in DOMAIN n.v |-> JsonNodeParse(n.v[i])])
      [] n.kind = "null" -> n
      [] OTHER -> [n EXCEPT !.holds = JsonElement]

\* The text of a number of a document is the text of an integer: it has no
\* fraction and no exponent.
IsIntegerText(text) ==
    \A i \in 1..Len(text) : SubSeq(text, i, i) \notin {".", "E", "e"}

\* JsonValue.TryGetValue<long>: the long the node holds, or the integer of a
\* JsonElement within the 64 bits (JsonElement.TryGetInt64).
TryGetLong(n) ==
    /\ n.kind = "num"
    /\ \/ n.holds = "System.Int64"
       \/ n.holds = JsonElement /\ IsIntegerText(n.text) /\ FitsLong(n.v)

\* JsonValue.TryGetValue<double>: the double the node holds, or the number
\* of a JsonElement (JsonElement.TryGetDouble).
TryGetDouble(n) ==
    /\ n.kind = "num"
    /\ n.holds \in {"System.Double", JsonElement}

\* The runtimes of the emitted code: the release of System.Text.Json (6
\* stands for 6 and 7, 9 for 9 and later), the location of the source which
\* a build with the debugging symbols adds to the frames of the stack traces
\* ("" without the symbols; System.Convert.FromBase64String(text) of BytesFrom
\* is at line 191 of the emitted file for every schema), and
\* Environment.NewLine of the platform.
Runtimes ==
    [release : {"6", "8", "9"},
     location : {"", "/src/AasCore.Aas3_0/jsonization.cs:line 191"},
     newline : {"\n", "\r\n"}]

FirstRuntime == [release |-> "9", location |-> "", newline |-> "\n"]

\* The character of the names of the generic classes.
Backtick == SubSeq("`'", 1, 1)

\* The types a value node holds.
HeldTypes ==
    {JsonElement, "System.Boolean", "System.Int64", "System.Double", "System.String"}

\* The name of the class of a value node under a runtime.  JsonValue is
\* abstract: the class of a value is a class internal to System.Text.Json,
\* which differs between the releases and with what the node holds.
ClassOfValue(r, holds) ==
    IF r.release = "9" /\ holds = JsonElement
    THEN "System.Text.Json.Nodes.JsonValueOfElement"
    ELSE "System.Text.Json.Nodes."
         \o (IF r.release = "6" THEN "JsonValueTrimmable" ELSE "JsonValuePrimitive")
         \o Backtick \o "1[" \o holds \o "]"

\* node.GetType() as interpolated in the causes: the name of the class of the
\* node.
GetType(n) ==
    CASE n.kind = "obj" -> "System.Text.Json.Nodes.JsonObject"
      [] n.kind = "arr" -> "System.Text.Json.Nodes.JsonArray"
      [] OTHER -> ClassOfValue(runtime, n.holds)

\* value.ToJsonString() of a JsonValue.
ToJsonString(n) ==
    CASE n.kind = "bool" -> IF n.v THEN "true" ELSE "false"
      [] n.kind = "num" -> n.text
      [] n.kind = "str" -> "\"" \o n.v \o "\""
      [] OTHER -> "null"

(***************************************************************************)
(* Reporting.Error: a cause and the path segments, prepended while the     *)
(* error propagates outward.                                               *)
(***************************************************************************)
NameSegment(name) == [segment |-> "name", name |-> name, index |-> 0]

IndexSegment(index) == [segment |-> "index", name |-> "", index |-> index]

NewError(cause) == [cause |-> cause, segments |-> <<>>]

PrependSegment(error, segment) ==
    [error EXCEPT !.segments = <<segment>> \o error.segments]

(***************************************************************************)
(* The outcome of an emitted routine: the returned value, the out-value    *)
(* "error", and the exception that escaped the routine, if any.            *)
(***************************************************************************)
Ret(result, error) == [result |-> result, error |-> error, thrown |-> ""]

Ok(value) == Ret(Some(value), Null)

Fail(error) == Ret(Null, Some(error))

Throw(exception) == [result |-> Null, error |-> Null, thrown |-> exception]

(***************************************************************************)
(* Values of the C# object model: the primitives, the enumeration          *)
(* literals, the lists and the instances of the classes.                   *)
(***************************************************************************)
VBool(b) == [kind |-> "bool", v |-> b]

VLong(n) == [kind |-> "long", v |-> n]

VDouble(n) == [kind |-> "double", v |-> n]

VString(s) == [kind |-> "string", v |-> s]

VBytes(bytes) == [kind |-> "bytes", v |-> bytes]

VEnum(enum, literal) == [kind |-> "enum", v |-> <<enum, literal>>]

VList(items) == [kind |-> "list", v |-> items]

\* An instance: the class and the values of the properties, in the order of
\* cls.properties; an absent optional property is Null.
VInstance(cls_name, props) == [kind |-> "instance", v |-> [cls |-> cls_name, props |-> props]]

(***************************************************************************)
(* The schema model (aas_core_codegen.intermediate): type annotations,     *)
(* our types and the symbol table.                                         *)
(***************************************************************************)
PrimitiveTypeAnnotation(a_type) == [k |-> "primitive", a_type |-> a_type]

OurTypeAnnotation(name) == [k |-> "our", our_type |-> name]

ListTypeAnnotation(items) == [k |-> "list", items |-> items]

OptionalTypeAnnotation(value) == [k |-> "optional", value |-> value]

PrimitiveType == {"BOOL", "INT", "FLOAT", "STR", "BYTEARRAY"}

\* intermediate.beneath_optional
beneath_optional(type_annotation) ==
    IF type_annotation.k = "optional" THEN type_annotation.value ELSE type_annotation

\* An argument of a constructor and a property of a class.
Argument(name, type_annotation) == [name |-> name, type_annotation |-> type_annotation]

Property(name, type_annotation) == [name |-> name, type_annotation |-> type_annotation]

Literal(name, value) == [name |-> name, value |-> value]

Interface(name, implementers) == [name |-> name, implementers |-> implementers]

Enumeration(name, literals) ==
    [kind |-> "Enumeration", name |-> name, literals |-> literals,
     constrainee |-> "", properties |-> <<>>, arguments |-> <<>>,
     interface |-> Null, with_model_type |-> FALSE,
     is_implementation_specific |-> FALSE]

ConstrainedPrimitive(name, constrainee) ==
    [kind |-> "ConstrainedPrimitive", name |-> name, literals |-> <<>>,
     constrainee |-> constrainee, properties |-> <<>>, arguments |-> <<>>,
     interface |-> Null, with_model_type |-> FALSE,
     is_implementation_specific |-> FALSE]

AbstractClass(name, properties, arguments, interface, with_model_type) ==
    [kind |-> "AbstractClass", name |-> name, literals |-> <<>>,
     constrainee |-> "", properties |-> properties, arguments |-> arguments,
     interface |-> interface, with_model_type |-> with_model_type,
     is_implementation_specific |-> FALSE]

ConcreteClass(name, properties, arguments, interface, with_model_type, is_implementation_specific) ==
    [kind |-> "ConcreteClass", name |-> name, literals |-> <<>>,
     constrainee |-> "", properties |-> properties, arguments |-> arguments,
     interface |-> interface, with_model_type |-> with_model_type,
     is_implementation_specific |-> is_implementation_specific]

\* symbol_table.must_find_our_type
OurType(st, name) == st[CHOOSE i \in DOMAIN st : st[i].name = name]

\* cls.properties_by_name[name]
PropertyByName(cls, name) ==
    cls.properties[CHOOSE i \in DOMAIN cls.properties : cls.properties[i].name = name]

IsClass(our_type) == our_type.kind \in {"AbstractClass", "ConcreteClass"}

(***************************************************************************)
(* The schemas of the model.  MetaModel has                                *)
(*  - Point, with a required integer and an optional floating-point        *)
(*    number;                                                              *)
(*  - Shape, an abstract class with the implementers Circle and Square,    *)
(*    all three serialized with the model type;                            *)
(*  - Drawing, with a list, an optional and an enumeration property;       *)
(*  - Item, with the remaining primitives and a constrained primitive;     *)
(*  - Label, whose constructor argument is optional while the property is  *)
(*    required (the default is set in the body of the constructor);        *)
(*  - Tag, a concrete class with the descendant Big_tag, neither of them   *)
(*    marked with_model_type, and Holder, which refers to Tag and Label;   *)
(*  - Custom, an implementation-specific class.                            *)
(***************************************************************************)
INT == PrimitiveTypeAnnotation("INT")

STR == PrimitiveTypeAnnotation("STR")

ColorEnumeration ==
    Enumeration("Color", <<Literal("Red", "RED"), Literal("Dark_green", "DARK-GREEN")>>)

FLOAT == PrimitiveTypeAnnotation("FLOAT")

PointClass ==
    ConcreteClass("Point",
        <<Property("x", INT), Property("y", OptionalTypeAnnotation(FLOAT))>>,
        <<Argument("x", INT), Argument("y", OptionalTypeAnnotation(FLOAT))>>,
        Null, FALSE, FALSE)

ShapeClass ==
    AbstractClass("Shape", <<>>, <<>>,
        Some(Interface("Shape", <<"Circle", "Square">>)), TRUE)

CircleClass ==
    ConcreteClass("Circle",
        <<Property("radius", INT)>>, <<Argument("radius", INT)>>,
        Null, TRUE, FALSE)

SquareClass ==
    ConcreteClass("Square",
        <<Property("side", OptionalTypeAnnotation(STR))>>,
        <<Argument("side", OptionalTypeAnnotation(STR))>>,
        Null, TRUE, FALSE)

DrawingClass ==
    ConcreteClass("Drawing",
        <<Property("shapes", ListTypeAnnotation(OurTypeAnnotation("Shape"))),
          Property("main_shape", OptionalTypeAnnotation(OurTypeAnnotation("Shape"))),
          Property("color", OurTypeAnnotation("Color"))>>,
        <<Argument("color", OurTypeAnnotation("Color")),
          Argument("shapes", ListTypeAnnotation(OurTypeAnnotation("Shape"))),
          Argument("main_shape", OptionalTypeAnnotation(OurTypeAnnotation("Shape")))>>,
        Null, FALSE, FALSE)

ItemClass ==
    ConcreteClass("Item",
        <<Property("some_flag", PrimitiveTypeAnnotation("BOOL")),
          Property("weight", OptionalTypeAnnotation(PrimitiveTypeAnnotation("FLOAT"))),
          Property("data", OptionalTypeAnnotation(PrimitiveTypeAnnotation("BYTEARRAY"))),
          Property("title", OurTypeAnnotation("Non_empty_string"))>>,
        <<Argument("some_flag", PrimitiveTypeAnnotation("BOOL")),
          Argument("weight", OptionalTypeAnnotation(PrimitiveTypeAnnotation("FLOAT"))),
          Argument("data", OptionalTypeAnnotation(PrimitiveTypeAnnotation("BYTEARRAY"))),
          Argument("title", OurTypeAnnotation("Non_empty_string"))>>,
        Null, FALSE, FALSE)

LabelClass ==
    ConcreteClass("Label",
        <<Property("text", STR)>>,
        <<Argument("text", OptionalTypeAnnotation(STR))>>,
        Null, FALSE, FALSE)

TagClass ==
    ConcreteClass("Tag",
        <<Property("code", INT)>>, <<Argument("code", INT)>>,
        Some(Interface("Tag", <<"Tag", "Big_tag">>)), FALSE, FALSE)

BigTagClass ==
    ConcreteClass("Big_tag",
        <<Property("code", INT)>>, <<Argument("code", INT)>>,
        Null, FALSE, FALSE)

HolderClass ==
    ConcreteClass("Holder",
        <<Property("tag", OptionalTypeAnnotation(OurTypeAnnotation("Tag"))),
          Property("labels", ListTypeAnnotation(OurTypeAnnotation("Label")))>>,
        <<Argument("labels", ListTypeAnnotation(OurTypeAnnotation("Label"))),
          Argument("tag", OptionalTypeAnnotation(OurTypeAnnotation("Tag")))>>,
        Null, FALSE, FALSE)

CustomClass == ConcreteClass("Custom", <<>>, <<>>, Null, FALSE, TRUE)

MetaModel ==
    <<ColorEnumeration, ConstrainedPrimitive("Non_empty_string", "STR"),
      PointClass, ShapeClass, CircleClass, SquareClass, DrawingClass,
      ItemClass, LabelClass, TagClass, BigTagClass, HolderClass, CustomClass>>

(***************************************************************************)
(* FaultyModel is a schema the generator rejects.  It has                  *)
(*  - Custom and Extra, two implementation-specific classes;               *)
(*  - Strict, with a required argument over an optional property (a), an   *)
(*    argument of another primitive type than the property (b) and an      *)
(*    optional argument over a required property (c);                      *)
(*  - Loose, whose optional argument is a list of other items than the     *)
(*    property.                                                            *)
(***************************************************************************)
ExtraClass == ConcreteClass("Extra", <<>>, <<>>, Null, FALSE, TRUE)

StrictClass ==
    ConcreteClass("Strict",
        <<Property("a", OptionalTypeAnnotation(INT)), Property("b", INT),
          Property("c", INT)>>,
        <<Argument("a", INT), Argument("b", STR),
          Argument("c", OptionalTypeAnnotation(INT))>>,
        Null, FALSE, FALSE)

LooseClass ==
    ConcreteClass("Loose",
        <<Property("d", ListTypeAnnotation(INT))>>,
        <<Argument("d", OptionalTypeAnnotation(ListTypeAnnotation(STR)))>>,
        Null, FALSE, FALSE)

FaultyModel == <<CustomClass, ExtraClass, StrictClass, LooseClass>>

(***************************************************************************)
(* DefaultsModel is a schema with one class, Triple, of three required     *)
(* properties: the constructor argument of the middle one is optional,     *)
(* the arguments of the other two are required.                            *)
(***************************************************************************)
TripleClass ==
    ConcreteClass("Triple",
        <<Property("zero", INT), Property("first", STR), Property("second", INT)>>,
        <<Argument("zero", INT), Argument("first", OptionalTypeAnnotation(STR)),
          Argument("second", INT)>>,
        Null, FALSE, FALSE)

DefaultsModel == <<TripleClass>>

(***************************************************************************)
(* LeadingOptionalModel is a schema with the class Pair, whose first       *)
(* property and constructor argument are optional and whose second are     *)
(* required, next to the implementation-specific class Custom and the      *)
(* class Strict of FaultyModel.                                            *)
(***************************************************************************)
PairClass ==
    ConcreteClass("Pair",
        <<Property("first", OptionalTypeAnnotation(STR)), Property("second", INT)>>,
        <<Argument("first", OptionalTypeAnnotation(STR)), Argument("second", INT)>>,
        Null, FALSE, FALSE)

LeadingOptionalModel == <<CustomClass, PairClass, StrictClass>>

(***************************************************************************)
(* ExampleModel is the schema of the example of the specification: the     *)
(* class Point with a required 64-bit integer x and an optional 64-bit     *)
(* integer y.                                                              *)
(***************************************************************************)
ExamplePointClass ==
    ConcreteClass("Point",
        <<Property("x", INT), Property("y", OptionalTypeAnnotation(INT))>>,
        <<Argument("x", INT), Argument("y", OptionalTypeAnnotation(INT))>>,
        Null, FALSE, FALSE)

ExampleModel == <<ExamplePointClass>>

\* A class with properties of its own class, as the classes of a recursive
\* meta-model have them: a folder with a list of folders in it and a
\* shortcut to a folder.
FolderClass ==
    ConcreteClass("Folder",
        <<Property("name", STR),
          Property("folders",
                   OptionalTypeAnnotation(ListTypeAnnotation(OurTypeAnnotation("Folder")))),
          Property("shortcut", OptionalTypeAnnotation(OurTypeAnnotation("Folder")))>>,
        <<Argument("name", STR),
          Argument("folders",
                   OptionalTypeAnnotation(ListTypeAnnotation(OurTypeAnnotation("Folder")))),
          Argument("shortcut", OptionalTypeAnnotation(OurTypeAnnotation("Folder")))>>,
        Null, FALSE, FALSE)

RecursiveModel == <<FolderClass>>

SymbolTables == {MetaModel, FaultyModel, DefaultsModel, LeadingOptionalModel, ExampleModel}

(***************************************************************************)
(* Naming (aas_core_codegen.naming and csharp.naming) on the identifiers   *)
(* of the schemas above.                                                   *)
(***************************************************************************)
\* naming.json_property: lower camel case.
json_property(name) ==
    CASE name = "main_shape" -> "mainShape"
      [] name = "some_flag" -> "someFlag"
      [] OTHER -> name

\* naming.json_model_type: capitalized camel case.
json_model_type(name) ==
    CASE name = "Big_tag" -> "BigTag"
      [] name = "Non_empty_string" -> "NonEmptyString"
      [] OTHER -> name

\* csharp_naming.class_name and csharp_naming.enum_name.
class_name(name) == json_model_type(name)

enum_name(name) == json_model_type(name)

\* csharp_naming.interface_name
interface_name(name) == "I" \o json_model_type(name)

(***************************************************************************)
(* The runtime the emitted code relies on: Stringification of the          *)
(* enumeration literals and System.Convert for Base64.                     *)
(***************************************************************************)
\* Stringification.<Enum>FromString: the literal with that value, or null.
FromString(enumeration, text) ==
    IF \E i \in DOMAIN enumeration.literals : enumeration.literals[i].value = text
    THEN Some(VEnum(enumeration.name,
            enumeration.literals[CHOOSE i \in DOMAIN enumeration.literals :
                enumeration.literals[i].value = text].name))
    ELSE Null

\* Stringification.ToString of a literal: its value, or null for a number
\* that is no literal of the enumeration.
EnumToString(enumeration, literal) ==
    IF \E i \in DOMAIN enumeration.literals : enumeration.literals[i].name = literal
    THEN Some(enumeration.literals[CHOOSE i \in DOMAIN enumeration.literals :
                enumeration.literals[i].name = literal].value)
    ELSE Null

\* The Base64 texts among the strings of the model and the bytes they encode.
Base64Table ==
    <<[text |-> "", bytes |-> <<>>],
      [text |-> "AQ==", bytes |-> <<1>>],
      [text |-> "AQI=", bytes |-> <<1, 2>>],
      [text |-> "Blob", bytes |-> <<6, 90, 27>>]>>

\* System.Convert.FromBase64String: Null stands for the FormatException.
FromBase64String(text) ==
    IF \E i \in DOMAIN Base64Table : Base64Table[i].text = text
    THEN Some(Base64Table[CHOOSE i \in DOMAIN Base64Table : Base64Table[i].text = text].bytes)
    ELSE Null

\* System.Convert.ToBase64String
ToBase64String(bytes) ==
    Base64Table[CHOOSE i \in DOMAIN Base64Table : Base64Table[i].bytes = bytes].text

(***************************************************************************)
(* DeserializeImplementation: the coercions of the primitives.             *)
(* "node as Nodes.JsonValue" is null for an object and an array; a null    *)
(* node makes node.GetType() raise.                                        *)
(***************************************************************************)
NotAJsonValue(n) ==
    IF n.kind = "null"
    THEN Throw("System.NullReferenceException")
    ELSE Fail(NewError("Expected a JsonValue, but got " \o GetType(n)))

BoolFrom(n) ==
    IF ~IsJsonValue(n) THEN NotAJsonValue(n)
    ELSE IF n.kind # "bool"
    THEN Fail(NewError("Expected a boolean, but the conversion failed from "
                       \o ToJsonString(n)))
    ELSE Ok(VBool(n.v))

LongFrom(n) ==
    IF ~IsJsonValue(n) THEN NotAJsonValue(n)
    ELSE IF ~TryGetLong(n)
    THEN Fail(NewError("Expected a 64-bit long integer, but the conversion failed from "
                       \o ToJsonString(n)))
    ELSE Ok(VLong(n.v))

DoubleFrom(n) ==
    IF ~IsJsonValue(n) THEN NotAJsonValue(n)
    ELSE IF ~TryGetDouble(n)
    THEN Fail(NewError("Expected a 64-bit double-precision float, but the conversion failed from "
                       \o ToJsonString(n)))
    ELSE Ok(VDouble(ToDouble(n.v)))

StringFrom(n) ==
    IF ~IsJsonValue(n) THEN NotAJsonValue(n)
    ELSE IF n.kind # "str"
    THEN Fail(NewError("Expected a string, but the conversion failed from "
                       \o ToJsonString(n)))
    ELSE Ok(VString(n.v))

\* The namespace given to generate(): the emitted code is
\* "namespace <namespace> { public static class Jsonization { ... } }".
Namespace == "AasCore.Aas3_0"

\* exception.ToString() of the FormatException of FromBase64String under a
\* runtime: the name of the class, the message and the stack trace up to the
\* method which caught it, the lines joined by Environment.NewLine; a build
\* with the debugging symbols adds the location of the source to the frame
\* of the method.
FormatExceptionToString(r) ==
    "System.FormatException: The input is not a valid Base-64 string as it contains "
    \o "a non-base 64 character, more than two padding characters, or an illegal "
    \o "character among the padding characters."
    \o r.newline \o "   at System.Convert.FromBase64CharPtr(Char* inputPtr, Int32 inputLength)"
    \o r.newline \o "   at System.Convert.FromBase64String(String s)"
    \o r.newline \o "   at " \o Namespace
    \o ".Jsonization.DeserializeImplementation.BytesFrom(JsonNode node, Error& error)"
    \o (IF r.location # "" THEN " in " \o r.location ELSE "")

\* "Expected Base-64 encoded bytes, but the conversion failed because: {exception}"
FormatExceptionCause(r) ==
    "Expected Base-64 encoded bytes, but the conversion failed because: "
    \o FormatExceptionToString(r)

BytesFrom(n) ==
    IF ~IsJsonValue(n) THEN NotAJsonValue(n)
    ELSE IF n.kind # "str"
    THEN Fail(NewError("Expected a string, but the conversion failed from "
                       \o ToJsonString(n)))
    ELSE IF FromBase64String(n.v) = Null
    THEN Fail(NewError(FormatExceptionCause(runtime)))
    ELSE Ok(VBytes(FromBase64String(n.v)[1]))

\* _PARSE_METHOD_BY_PRIMITIVE_TYPE
PrimitiveFrom(a_type, n) ==
    CASE a_type = "BOOL" -> BoolFrom(n)
      [] a_type = "INT" -> LongFrom(n)
      [] a_type = "FLOAT" -> DoubleFrom(n)
      [] a_type = "STR" -> StringFrom(n)
      [] a_type = "BYTEARRAY" -> BytesFrom(n)

\* EnumerationFrom without the error for an unknown literal.
EnumerationFrom_ForgetsError(enumeration, message, n) ==
    LET text == StringFrom(n)
    IN  IF text.thrown # "" THEN text
        ELSE IF text.error # Null THEN Ret(Null, text.error)
        ELSE IF text.result = Null
        THEN Throw("System.InvalidOperationException")
        ELSE Ret(FromString(enumeration, text.result[1].v), Null)

\* The deserialization method of an enumeration.
EnumerationFrom(enumeration, message, n) ==
    LET text == StringFrom(n)
    IN  IF text.thrown # "" THEN text
        ELSE IF text.error # Null THEN Ret(Null, text.error)
        ELSE IF text.result = Null
        THEN Throw("System.InvalidOperationException")
        ELSE LET result == FromString(enumeration, text.result[1].v)
             IN  IF result = Null
                 THEN Ret(result, Some(NewError(message)))
                 ELSE Ret(result, Null)

(***************************************************************************)
(* The generator of the deserialization.  The emitted C# text is kept as   *)
(* a routine descriptor: the name of the method and what its body does,    *)
(* as far as it depends on the schema.                                     *)
(***************************************************************************)
\* Error(node, message) of aas_core_codegen.common.
Error(message) == [message |-> message]

_PARSE_METHOD_BY_PRIMITIVE_TYPE(a_type) ==
    CASE a_type = "BOOL" -> "DeserializeImplementation.BoolFrom"
      [] a_type = "INT" -> "DeserializeImplementation.LongFrom"
      [] a_type = "FLOAT" -> "DeserializeImplementation.DoubleFrom"
      [] a_type = "STR" -> "DeserializeImplementation.StringFrom"
      [] a_type = "BYTEARRAY" -> "DeserializeImplementation.BytesFrom"

\* _parse_method_for_atomic_value which resolves every class to the parser of
\* the class.
_parse_method_for_atomic_value_ClassParser(st, type_annotation) ==
    IF type_annotation.k = "primitive"
    THEN _PARSE_METHOD_BY_PRIMITIVE_TYPE(type_annotation.a_type)
    ELSE LET our_type == OurType(st, type_annotation.our_type)
         IN  CASE our_type.kind = "Enumeration" ->
                    "DeserializeImplementation." \o enum_name(our_type.name) \o "From"
               [] our_type.kind = "ConstrainedPrimitive" ->
                    _PARSE_METHOD_BY_PRIMITIVE_TYPE(our_type.constrainee)
               [] OTHER ->
                    "DeserializeImplementation." \o class_name(our_type.name) \o "From"

\* The name of the method which parses a non-optional atomic value.
_parse_method_for_atomic_value(st, type_annotation) ==
    IF type_annotation.k = "primitive"
    THEN _PARSE_METHOD_BY_PRIMITIVE_TYPE(type_annotation.a_type)
    ELSE LET our_type == OurType(st, type_annotation.our_type)
         IN  CASE our_type.kind = "Enumeration" ->
                    "DeserializeImplementation." \o enum_name(our_type.name) \o "From"
               [] our_type.kind = "ConstrainedPrimitive" ->
                    _PARSE_METHOD_BY_PRIMITIVE_TYPE(our_type.constrainee)
               [] OTHER ->
                    IF our_type.interface # Null
                    THEN "DeserializeImplementation."
                         \o interface_name(our_type.interface[1].name) \o "From"
                    ELSE "DeserializeImplementation."
                         \o class_name(our_type.name) \o "From"

\* The five coercions which open DeserializeImplementation.
PrimitiveRoutines ==
    <<[name |-> "DeserializeImplementation.BoolFrom", kind |-> "primitive", a_type |-> "BOOL"],
      [name |-> "DeserializeImplementation.LongFrom", kind |-> "primitive", a_type |-> "INT"],
      [name |-> "DeserializeImplementation.DoubleFrom", kind |-> "primitive", a_type |-> "FLOAT"],
      [name |-> "DeserializeImplementation.StringFrom", kind |-> "primitive", a_type |-> "STR"],
      [name |-> "DeserializeImplementation.BytesFrom", kind |-> "primitive", a_type |-> "BYTEARRAY"]>>

_generate_from_method_for_enumeration(enumeration) ==
    [name |-> "DeserializeImplementation." \o enum_name(enumeration.name) \o "From",
     kind |-> "enumeration",
     enumeration |-> enumeration.name,
     message |-> "Not a valid JSON representation of " \o enum_name(enumeration.name)]

\* _generate_from_method_for_interface with the method of the first
\* implementer in every case of the switch.
_generate_from_method_for_interface_FirstMethod(interface) ==
    [name |-> "DeserializeImplementation." \o interface_name(interface.name) \o "From",
     kind |-> "interface",
     interface_name |-> interface_name(interface.name),
     cases |-> [i \in DOMAIN interface.implementers |->
                  [model_type |-> json_model_type(interface.implementers[i]),
                   method |-> "DeserializeImplementation."
                              \o class_name(interface.implementers[1]) \o "From"]]]

\* _generate_from_method_for_interface whose cases call the dispatchers named
\* after the implementers.
_generate_from_method_for_interface_CallsDispatchers(interface) ==
    [name |-> "DeserializeImplementation." \o interface_name(interface.name) \o "From",
     kind |-> "interface",
     interface_name |-> interface_name(interface.name),
     cases |-> [i \in DOMAIN interface.implementers |->
                  [model_type |-> json_model_type(interface.implementers[i]),
                   method |-> "DeserializeImplementation."
                              \o interface_name(interface.implementers[i]) \o "From"]]]

\* One case of the switch per implementer, in the order of the implementers.
_generate_from_method_for_interface(interface) ==
    [name |-> "DeserializeImplementation." \o interface_name(interface.name) \o "From",
     kind |-> "interface",
     interface_name |-> interface_name(interface.name),
     cases |-> [i \in DOMAIN interface.implementers |->
                  [model_type |-> json_model_type(interface.implementers[i]),
                   method |-> "DeserializeImplementation."
                              \o class_name(interface.implementers[i]) \o "From"]]]

\* _generate_deserialize_constructor_argument with the name of the argument
\* as the label of the case.
_generate_deserialize_constructor_argument_RawName(st, cls, i) ==
    LET arg == cls.arguments[i]
        type_anno == beneath_optional(arg.type_annotation)
    IN  IF type_anno.k \in {"primitive", "our"}
        THEN [json_name |-> arg.name, target |-> i, list |-> FALSE,
              parse_method |-> _parse_method_for_atomic_value(st, type_anno)]
        ELSE [json_name |-> arg.name, target |-> i, list |-> TRUE,
              parse_method |-> _parse_method_for_atomic_value(st, type_anno.items)]

\* The body of the case which parses the constructor argument number i.
_generate_deserialize_constructor_argument(st, cls, i) ==
    LET arg == cls.arguments[i]
        type_anno == beneath_optional(arg.type_annotation)
    IN  IF type_anno.k \in {"primitive", "our"}
        THEN [json_name |-> json_property(arg.name), target |-> i, list |-> FALSE,
              parse_method |-> _parse_method_for_atomic_value(st, type_anno)]
        ELSE [json_name |-> json_property(arg.name), target |-> i, list |-> TRUE,
              parse_method |-> _parse_method_for_atomic_value(st, type_anno.items)]

\* intermediate.type_annotations_equal
RECURSIVE type_annotations_equal(_, _)
type_annotations_equal(a, b) ==
    /\ a.k = b.k
    /\ CASE a.k = "primitive" -> a.a_type = b.a_type
         [] a.k = "our" -> a.our_type = b.our_type
         [] a.k = "list" -> type_annotations_equal(a.items, b.items)
         [] OTHER -> type_annotations_equal(a.value, b.value)

\* The constructor arguments whose type matches neither the type of the
\* property nor, beneath the optional, the type of the property.
MismatchedArguments(cls) ==
    {i \in DOMAIN cls.arguments :
        LET arg == cls.arguments[i]
            prop == PropertyByName(cls, arg.name)
        IN  ~(\/ type_annotations_equal(arg.type_annotation, prop.type_annotation)
              \/ type_annotations_equal(beneath_optional(arg.type_annotation),
                                        prop.type_annotation))}

\* The indices of a set of indices as an ascending sequence.
RECURSIVE Ascending(_)
Ascending(indices) ==
    IF indices = {} THEN <<>>
    ELSE LET least == CHOOSE i \in indices : \A j \in indices : i <= j
         IN  <<least>> \o Ascending(indices \ {least})

\* str() of a type annotation, as the messages of the generator interpolate it.
RECURSIVE type_annotation_str(_)
type_annotation_str(type_annotation) ==
    CASE type_annotation.k = "primitive" ->
             (CASE type_annotation.a_type = "BOOL" -> "bool"
                [] type_annotation.a_type = "INT" -> "int"
                [] type_annotation.a_type = "FLOAT" -> "float"
                [] type_annotation.a_type = "STR" -> "str"
                [] type_annotation.a_type = "BYTEARRAY" -> "bytearray")
      [] type_annotation.k = "our" -> type_annotation.our_type
      [] type_annotation.k = "list" ->
             "List[" \o type_annotation_str(type_annotation.items) \o "]"
      [] OTHER -> "Optional[" \o type_annotation_str(type_annotation.value) \o "]"

\* The error for a constructor argument whose type does not match the type of
\* the property; the names are interpolated with !r, between single quotes.
MismatchError(cls, arg) ==
    Error("Expected type annotation for property '" \o arg.name
          \o "' and constructor argument '" \o arg.name
          \o "' of the class '" \o cls.name
          \o "' to have matching types, but they do not: property type is "
          \o type_annotation_str(PropertyByName(cls, arg.name).type_annotation)
          \o " and argument type is " \o type_annotation_str(arg.type_annotation)
          \o ". Hence we do not know how to generate the call to the constructor"
          \o " in the JSON de-serialization.")

\* The text of the checks of the required arguments: "\n\n" is written
\* before the check of every required argument but the one at the index 0,
\* so that the text starts with new lines when the first required argument
\* follows an optional one.
RequiredChecksStartWithNewLine(arguments) ==
    \E i \in DOMAIN arguments :
        /\ arguments[i].type_annotation.k # "optional"
        /\ i > 1
        /\ \A j \in 1..(i - 1) : arguments[j].type_annotation.k = "optional"

\* _generate_from_method_for_class which emits the case "modelType" for every
\* class.
_generate_from_method_for_class_AlwaysModelTypeCase(st, cls) ==
    LET arguments == cls.arguments
        errors == [j \in DOMAIN Ascending(MismatchedArguments(cls)) |->
                     MismatchError(cls, arguments[Ascending(MismatchedArguments(cls))[j]])]
        required == Ascending({i \in DOMAIN arguments :
                                  arguments[i].type_annotation.k # "optional"})
    IN  IF RequiredChecksStartWithNewLine(arguments)
        THEN [code |-> Null, errors |-> Null, thrown |-> "icontract.ViolationError"]
        ELSE IF Len(errors) > 0
        THEN [code |-> Null, errors |-> Some(errors), thrown |-> ""]
        ELSE [code |-> Some(
                [name |-> "DeserializeImplementation." \o class_name(cls.name) \o "From",
                 kind |-> "class",
                 cls |-> cls.name,
                 cases |-> [i \in DOMAIN arguments |->
                              _generate_deserialize_constructor_argument(st, cls, i)],
                 model_type_case |-> TRUE,
                 required |-> [j \in DOMAIN required |->
                                 [target |-> required[j],
                                  json_name |-> json_property(arguments[required[j]].name)]],
                 init |-> [i \in DOMAIN arguments |->
                             [target |-> i,
                              throw_if_null |->
                                  PropertyByName(cls, arguments[i].name).type_annotation.k
                                  # "optional"]]]),
              errors |-> Null,
              thrown |-> ""]

\* _generate_from_method_for_class: Stripped(...) of the checks of the
\* required arguments raises when the text starts with a new line (the
\* precondition of common.Stripped: no white space at either end); the
\* exception leaves the generator before the types are compared.
_generate_from_method_for_class(st, cls) ==
    LET arguments == cls.arguments
        errors == [j \in DOMAIN Ascending(MismatchedArguments(cls)) |->
                     MismatchError(cls, arguments[Ascending(MismatchedArguments(cls))[j]])]
        required == Ascending({i \in DOMAIN arguments :
                                  arguments[i].type_annotation.k # "optional"})
    IN  IF RequiredChecksStartWithNewLine(arguments)
        THEN [code |-> Null, errors |-> Null, thrown |-> "icontract.ViolationError"]
        ELSE IF Len(errors) > 0
        THEN [code |-> Null, errors |-> Some(errors), thrown |-> ""]
        ELSE [code |-> Some(
                [name |-> "DeserializeImplementation." \o class_name(cls.name) \o "From",
                 kind |-> "class",
                 cls |-> cls.name,
                 cases |-> [i \in DOMAIN arguments |->
                              _generate_deserialize_constructor_argument(st, cls, i)],
                 model_type_case |-> cls.with_model_type,
                 required |-> [j \in DOMAIN required |->
                                 [target |-> required[j],
                                  json_name |-> json_property(arguments[required[j]].name)]],
                 init |-> [i \in DOMAIN arguments |->
                             [target |-> i,
                              throw_if_null |->
                                  PropertyByName(cls, arguments[i].name).type_annotation.k
                                  # "optional"]]]),
              errors |-> Null,
              thrown |-> ""]

RECURSIVE Concat(_)
Concat(seqs) == IF seqs = <<>> THEN <<>> ELSE Head(seqs) \o Concat(Tail(seqs))

\* Jsonization/DeserializeImplementation/<name>_from.cs
DeserializeImplementationKey(name) ==
    "Jsonization/DeserializeImplementation/" \o name \o "_from.cs"

\* What the loop of _generate_deserialize_impl does for a class, given the
\* block of its interface and what _generate_from_method_for_class returned:
\* the blocks it appends and the errors it appends.  A snippet is emitted as
\* is; by convention it defines the method <class name>From.
DeserializeImplOfClass(impls, our_type, interface_blocks, generated_class) ==
    IF our_type.kind # "ConcreteClass"
    THEN [blocks |-> interface_blocks, errors |-> <<>>, thrown |-> ""]
    ELSE IF our_type.is_implementation_specific
    THEN IF DeserializeImplementationKey(our_type.name) \notin impls
         THEN [blocks |-> interface_blocks,
               errors |-> <<Error("The jsonization snippet is missing "
                            \o "for the implementation-specific class "
                            \o our_type.name \o ": "
                            \o DeserializeImplementationKey(our_type.name))>>,
               thrown |-> ""]
         ELSE [blocks |-> interface_blocks \o
                          <<[name |-> "DeserializeImplementation."
                                      \o class_name(our_type.name) \o "From",
                             kind |-> "snippet",
                             key |-> DeserializeImplementationKey(our_type.name)]>>,
               errors |-> <<>>,
               thrown |-> ""]
    ELSE IF generated_class.thrown # ""
    THEN [blocks |-> interface_blocks, errors |-> <<>>, thrown |-> generated_class.thrown]
    ELSE IF generated_class.errors # Null
    THEN [blocks |-> interface_blocks, errors |-> generated_class.errors[1], thrown |-> ""]
    ELSE [blocks |-> interface_blocks \o generated_class.code, errors |-> <<>>,
          thrown |-> ""]

\* What the loop of _generate_deserialize_impl does for one of our types.
DeserializeImplOf(st, impls, our_type) ==
    IF our_type.kind = "Enumeration"
    THEN [blocks |-> <<_generate_from_method_for_enumeration(our_type)>>, errors |-> <<>>,
          thrown |-> ""]
    ELSE IF our_type.kind = "ConstrainedPrimitive"
    THEN [blocks |-> <<>>, errors |-> <<>>, thrown |-> ""]
    ELSE DeserializeImplOfClass(
             impls, our_type,
             IF our_type.interface # Null
             THEN <<_generate_from_method_for_interface(our_type.interface[1])>>
             ELSE <<>>,
             _generate_from_method_for_class(st, our_type))

\* The exception which ends the loop over our types: the one of the first
\* type whose generator raises.
Raised_by(per_type) ==
    per_type[CHOOSE i \in DOMAIN per_type :
                /\ per_type[i].thrown # ""
                /\ \A j \in DOMAIN per_type : per_type[j].thrown # "" => i <= j].thrown

\* The end of _generate_deserialize_impl, given what the loop did for each of
\* our types: the exception, the errors or the blocks.
DeserializeImplFrom(per_type) ==
    LET errors == Concat([i \in DOMAIN per_type |-> per_type[i].errors])
        blocks == PrimitiveRoutines
                  \o Concat([i \in DOMAIN per_type |-> per_type[i].blocks])
    IN  IF \E i \in DOMAIN per_type : per_type[i].thrown # ""
        THEN [code |-> Null, errors |-> Null, thrown |-> Raised_by(per_type)]
        ELSE IF Len(errors) > 0
        THEN [code |-> Null, errors |-> Some(errors), thrown |-> ""]
        ELSE [code |-> Some(blocks), errors |-> Null, thrown |-> ""]

_generate_deserialize_impl(st, impls) ==
    DeserializeImplFrom([i \in DOMAIN st |-> DeserializeImplOf(st, impls, st[i])])

(***************************************************************************)
(* The behaviour of the emitted deserialization routines.                  *)
(***************************************************************************)
HasRoutine(routines, method) == \E i \in DOMAIN routines : routines[i].name = method

RoutineOf(routines, method) ==
    routines[CHOOSE i \in DOMAIN routines : routines[i].name = method]

\* The constructor of the class Aas.<cls>: every argument is assigned to the
\* property of the same name.
Constructor(st, cls_name, slots) ==
    LET cls == OurType(st, cls_name)
    IN  VInstance(cls_name,
            [p \in DOMAIN cls.properties |->
                slots[CHOOSE i \in DOMAIN cls.arguments :
                        cls.arguments[i].name = cls.properties[p].name]])

\* obj["modelType"]: the value of the member, null when there is none or
\* when the value is the JSON null.
ModelTypeNode(members) ==
    IF \E i \in DOMAIN members : members[i].key = "modelType"
    THEN members[CHOOSE i \in DOMAIN members : members[i].key = "modelType"].value
    ELSE JNull

RECURSIVE Invoke(_, _, _, _)
RECURSIVE ParseItems(_, _, _, _, _, _)
RECURSIVE ScanKeys(_, _, _, _, _, _)

\* The foreach over the items of an array in the case of a list argument:
\* the outcome which ends the routine, or the parsed list.
ParseItems(st, routines, case, items, index, parsed) ==
    IF index > Len(items)
    THEN [ended |-> Null, list |-> parsed]
    ELSE IF items[index].kind = "null"
    THEN [ended |-> Some(Fail(
            PrependSegment(
                PrependSegment(NewError("Expected a non-null item, but got a null"),
                               IndexSegment(index - 1)),
                NameSegment(case.json_name)))),
          list |-> parsed]
    ELSE LET item == Invoke(st, routines, case.parse_method, items[index])
         IN  IF item.thrown # ""
             THEN [ended |-> Some(item), list |-> parsed]
             ELSE IF item.error # Null
             THEN [ended |-> Some(Fail(
                     PrependSegment(
                         PrependSegment(item.error[1], IndexSegment(index - 1)),
                         NameSegment(case.json_name)))),
                   list |-> parsed]
             ELSE IF item.result = Null
             THEN [ended |-> Some(Throw("System.InvalidOperationException")),
                   list |-> parsed]
             ELSE ParseItems(st, routines, case, items, index + 1,
                             Append(parsed, item.result[1]))

\* ParseCase which passes the error of the value on as it is.
ParseCase_WithoutName(st, routines, case, value, slots) ==
    IF ~case.list
    THEN LET parsed == Invoke(st, routines, case.parse_method, value)
         IN  IF parsed.thrown # ""
             THEN [ended |-> Some(parsed), slots |-> slots]
             ELSE IF parsed.error # Null
             THEN [ended |-> Some(Fail(parsed.error[1])), slots |-> slots]
             ELSE IF parsed.result = Null
             THEN [ended |-> Some(Throw("System.InvalidOperationException")),
                   slots |-> slots]
             ELSE [ended |-> Null,
                   slots |-> [slots EXCEPT ![case.target] = parsed.result]]
    ELSE IF value.kind # "arr"
    THEN [ended |-> Some(Fail(PrependSegment(
                NewError("Expected a JsonArray, but got " \o GetType(value)),
                NameSegment(case.json_name)))),
          slots |-> slots]
    ELSE LET parsed == ParseItems(st, routines, case, value.v, 1, <<>>)
         IN  IF parsed.ended # Null
             THEN [ended |-> parsed.ended, slots |-> slots]
             ELSE [ended |-> Null,
                   slots |-> [slots EXCEPT ![case.target] = Some(VList(parsed.list))]]

\* The body of the case of one constructor argument, the value not null.
ParseCase(st, routines, case, value, slots) ==
    IF ~case.list
    THEN LET parsed == Invoke(st, routines, case.parse_method, value)
         IN  IF parsed.thrown # ""
             THEN [ended |-> Some(parsed), slots |-> slots]
             ELSE IF parsed.error # Null
             THEN [ended |-> Some(Fail(PrependSegment(parsed.error[1],
                                                      NameSegment(case.json_name)))),
                   slots |-> slots]
             ELSE IF parsed.result = Null
             THEN [ended |-> Some(Throw("System.InvalidOperationException")),
                   slots |-> slots]
             ELSE [ended |-> Null,
                   slots |-> [slots EXCEPT ![case.target] = parsed.result]]
    ELSE IF value.kind # "arr"
    THEN [ended |-> Some(Fail(PrependSegment(
                NewError("Expected a JsonArray, but got " \o GetType(value)),
                NameSegment(case.json_name)))),
          slots |-> slots]
    ELSE LET parsed == ParseItems(st, routines, case, value.v, 1, <<>>)
         IN  IF parsed.ended # Null
             THEN [ended |-> parsed.ended, slots |-> slots]
             ELSE [ended |-> Null,
                   slots |-> [slots EXCEPT ![case.target] = Some(VList(parsed.list))]]

\* ScanKeys without "if (keyValue.Value == null) continue".
ScanKeys_ParsesNull(st, routines, r, members, i, slots) ==
    IF i > Len(members)
    THEN [ended |-> Null, slots |-> slots]
    ELSE LET keyValue == members[i]
         IN  IF \E c \in DOMAIN r.cases : r.cases[c].json_name = keyValue.key
             THEN LET case == r.cases[CHOOSE c \in DOMAIN r.cases :
                                        r.cases[c].json_name = keyValue.key]
                      step == ParseCase(st, routines, case, keyValue.value, slots)
                  IN  IF step.ended # Null
                      THEN step
                      ELSE ScanKeys(st, routines, r, members, i + 1, step.slots)
             ELSE IF r.model_type_case /\ keyValue.key = "modelType"
             THEN ScanKeys(st, routines, r, members, i + 1, slots)
             ELSE [ended |-> Some(Fail(NewError("Unexpected property: " \o keyValue.key))),
                   slots |-> slots]

\* ScanKeys whose case "modelType" requires the value to be a string.
ScanKeys_ChecksModelType(st, routines, r, members, i, slots) ==
    IF i > Len(members)
    THEN [ended |-> Null, slots |-> slots]
    ELSE LET keyValue == members[i]
         IN  IF \E c \in DOMAIN r.cases : r.cases[c].json_name = keyValue.key
             THEN LET case == r.cases[CHOOSE c \in DOMAIN r.cases :
                                        r.cases[c].json_name = keyValue.key]
                  IN  IF keyValue.value.kind = "null"
                      THEN ScanKeys(st, routines, r, members, i + 1, slots)
                      ELSE LET step == ParseCase(st, routines, case, keyValue.value, slots)
                           IN  IF step.ended # Null
                               THEN step
                               ELSE ScanKeys(st, routines, r, members, i + 1, step.slots)
             ELSE IF r.model_type_case /\ keyValue.key = "modelType"
             THEN IF keyValue.value.kind = "str"
                  THEN ScanKeys(st, routines, r, members, i + 1, slots)
                  ELSE [ended |-> Some(Fail(NewError("Expected a string, but got a "
                                                     \o keyValue.value.kind))),
                        slots |-> slots]
             ELSE [ended |-> Some(Fail(NewError("Unexpected property: " \o keyValue.key))),
                   slots |-> slots]

\* The foreach over the members of the object with the switch on the key:
\* the outcome which ends the routine, or the argument variables.
ScanKeys(st, routines, r, members, i, slots) ==
    IF i > Len(members)
    THEN [ended |-> Null, slots |-> slots]
    ELSE LET keyValue == members[i]
         IN  IF \E c \in DOMAIN r.cases : r.cases[c].json_name = keyValue.key
             THEN LET case == r.cases[CHOOSE c \in DOMAIN r.cases :
                                        /\ r.cases[c].json_name = keyValue.key
                                        /\ \A d \in DOMAIN r.cases :
                                              r.cases[d].json_name = keyValue.key => c <= d]
                  IN  IF keyValue.value.kind = "null"
                      THEN ScanKeys(st, routines, r, members, i + 1, slots)
                      ELSE LET step == ParseCase(st, routines, case, keyValue.value, slots)
                           IN  IF step.ended # Null
                               THEN step
                               ELSE ScanKeys(st, routines, r, members, i + 1, step.slots)
             ELSE IF r.model_type_case /\ keyValue.key = "modelType"
             THEN ScanKeys(st, routines, r, members, i + 1, slots)
             ELSE [ended |-> Some(Fail(NewError("Unexpected property: " \o keyValue.key))),
                   slots |-> slots]

\* The checks of the required arguments, in the order of the arguments.
CheckRequired(r, slots) ==
    IF \E j \in DOMAIN r.required : slots[r.required[j].target] = Null
    THEN LET first == CHOOSE j \in DOMAIN r.required :
                        /\ slots[r.required[j].target] = Null
                        /\ \A k \in DOMAIN r.required :
                              slots[r.required[k].target] = Null => j <= k
         IN  Some(Fail(NewError("Required property \"" \o r.required[first].json_name
                                \o "\" is missing")))
    ELSE Null

\* The call of the constructor with the null-coalescing throws.
Construct(st, r, slots) ==
    IF \E i \in DOMAIN r.init : r.init[i].throw_if_null /\ slots[r.init[i].target] = Null
    THEN Throw("System.InvalidOperationException")
    ELSE Ok(Constructor(st, r.cls, slots))

\* The deserialization method of a concrete class.
ClassFrom(st, routines, r, n) ==
    IF n.kind = "null" THEN Throw("System.NullReferenceException")
    ELSE IF n.kind # "obj"
    THEN Fail(NewError("Expected a JsonObject, but got " \o GetType(n)))
    ELSE LET scan == ScanKeys(st, routines, r, n.v, 1, [i \in DOMAIN r.cases |-> Null])
         IN  IF scan.ended # Null THEN scan.ended[1]
             ELSE IF CheckRequired(r, scan.slots) # Null
             THEN CheckRequired(r, scan.slots)[1]
             ELSE Construct(st, r, scan.slots)

\* InterfaceFrom with the cause of the missing model type for the unknown one.
InterfaceFrom_OneCause(st, routines, r, n) ==
    IF n.kind # "obj"
    THEN Fail(NewError("Expected Nodes.JsonObject, but got {node.GetType()}"))
    ELSE LET modelTypeNode == ModelTypeNode(n.v)
         IN  IF modelTypeNode.kind = "null"
             THEN Fail(NewError("Expected a model type, but none is present"))
             ELSE IF ~IsJsonValue(modelTypeNode)
             THEN Fail(NewError("Expected JsonValue, but got " \o GetType(modelTypeNode)))
             ELSE IF modelTypeNode.kind # "str"
             THEN Fail(NewError("Expected a string, but the conversion failed from "
                                \o ToJsonString(modelTypeNode)))
             ELSE IF \E c \in DOMAIN r.cases : r.cases[c].model_type = modelTypeNode.v
             THEN Invoke(st, routines,
                         r.cases[CHOOSE c \in DOMAIN r.cases :
                                    r.cases[c].model_type = modelTypeNode.v].method,
                         n)
             ELSE Fail(NewError("Expected a model type, but none is present"))

\* The deserialization method of an interface: the dispatch on modelType.
\* The cause for a node which is not an object is emitted without the "$"
\* of an interpolated string: the text "{node.GetType()}" stands in it as it
\* is, GetType() is not called, and a null node is reported like any other.
InterfaceFrom(st, routines, r, n) ==
    IF n.kind # "obj"
    THEN Fail(NewError("Expected Nodes.JsonObject, but got {node.GetType()}"))
    ELSE LET modelTypeNode == ModelTypeNode(n.v)
         IN  IF modelTypeNode.kind = "null"
             THEN Fail(NewError("Expected a model type, but none is present"))
             ELSE IF ~IsJsonValue(modelTypeNode)
             THEN Fail(NewError("Expected JsonValue, but got " \o GetType(modelTypeNode)))
             ELSE IF modelTypeNode.kind # "str"
             THEN Fail(NewError("Expected a string, but the conversion failed from "
                                \o ToJsonString(modelTypeNode)))
             ELSE IF \E c \in DOMAIN r.cases : r.cases[c].model_type = modelTypeNode.v
             THEN Invoke(st, routines,
                         r.cases[CHOOSE c \in DOMAIN r.cases :
                                    /\ r.cases[c].model_type = modelTypeNode.v
                                    /\ \A d \in DOMAIN r.cases :
                                          r.cases[d].model_type = modelTypeNode.v => c <= d
                                ].method,
                         n)
             ELSE Fail(NewError("Unexpected model type for " \o r.interface_name
                                \o ": " \o modelTypeNode.v))

\* A call of a method of DeserializeImplementation.  The body of a snippet is
\* not generated, and a call of a method which is not emitted does not compile.
Invoke(st, routines, method, n) ==
    IF ~HasRoutine(routines, method) THEN Throw("no such method")
    ELSE LET r == RoutineOf(routines, method)
         IN  CASE r.kind = "primitive" -> PrimitiveFrom(r.a_type, n)
               [] r.kind = "enumeration" ->
                    EnumerationFrom(OurType(st, r.enumeration), r.message, n)
               [] r.kind = "interface" -> InterfaceFrom(st, routines, r, n)
               [] r.kind = "class" -> ClassFrom(st, routines, r, n)
               [] OTHER -> Throw("snippet")

(***************************************************************************)
(* The generator of the serialization.                                     *)
(***************************************************************************)
\* The expression which converts a primitive value to a JSON value.
_generate_serialize_primitive_value(primitive_type) ==
    CASE primitive_type \in {"BOOL", "FLOAT", "STR"} -> [how |-> "Nodes.JsonValue.Create", of |-> ""]
      [] primitive_type = "INT" -> [how |-> "Transformer.ToJsonValue", of |-> ""]
      [] primitive_type = "BYTEARRAY" -> [how |-> "System.Convert.ToBase64String", of |-> ""]

_generate_serialize_atomic_value(st, type_annotation) ==
    IF type_annotation.k = "primitive"
    THEN _generate_serialize_primitive_value(type_annotation.a_type)
    ELSE LET our_type == OurType(st, type_annotation.our_type)
         IN  CASE our_type.kind = "Enumeration" ->
                    [how |-> "Serialize.ToJsonValue", of |-> our_type.name]
               [] our_type.kind = "ConstrainedPrimitive" ->
                    _generate_serialize_primitive_value(our_type.constrainee)
               [] OTHER -> [how |-> "Transform", of |-> ""]

\* The statements which put the property number p into the JSON object,
\* inside "if (that.<property> != null)" when the property is optional.
_generate_transform_property(st, cls, p) ==
    LET prop == cls.properties[p]
        type_anno == beneath_optional(prop.type_annotation)
    IN  [json_name |-> json_property(prop.name),
         source |-> p,
         if_not_null |-> prop.type_annotation.k = "optional",
         list |-> type_anno.k = "list",
         conversion |-> IF type_anno.k = "list"
                        THEN _generate_serialize_atomic_value(st, type_anno.items)
                        ELSE _generate_serialize_atomic_value(st, type_anno)]

_generate_transform_for_class(st, cls) ==
    [name |-> "Transform" \o class_name(cls.name),
     kind |-> "transform",
     cls |-> cls.name,
     stmts |-> [p \in DOMAIN cls.properties |-> _generate_transform_property(st, cls, p)],
     model_type |-> IF cls.with_model_type
                    THEN Some(json_model_type(cls.name))
                    ELSE Null]

\* Jsonization/Transformer/transform_<name>.cs
TransformerKey(name) == "Jsonization/Transformer/transform_" \o name \o ".cs"

\* What the loop of _generate_transformer does for one of our types.
TransformerOf(st, impls, our_type) ==
    IF our_type.kind # "ConcreteClass"
    THEN [blocks |-> <<>>, errors |-> <<>>]
    ELSE IF our_type.is_implementation_specific
    THEN IF TransformerKey(our_type.name) \notin impls
         THEN [blocks |-> <<>>,
               errors |-> <<Error("The jsonization snippet is missing "
                            \o "for the implementation-specific class "
                            \o our_type.name \o ": " \o TransformerKey(our_type.name))>>]
         ELSE [blocks |-> <<[name |-> "Transform" \o class_name(our_type.name),
                             kind |-> "snippet",
                             key |-> TransformerKey(our_type.name)]>>,
               errors |-> <<>>]
    ELSE [blocks |-> <<_generate_transform_for_class(st, our_type)>>, errors |-> <<>>]

_generate_transformer(st, impls) ==
    LET per_type == [i \in DOMAIN st |-> TransformerOf(st, impls, st[i])]
        errors == Concat([i \in DOMAIN st |-> per_type[i].errors])
        blocks == <<[name |-> "ToJsonValue", kind |-> "ToJsonValue"]>>
                  \o Concat([i \in DOMAIN st |-> per_type[i].blocks])
    IN  IF Len(errors) > 0
        THEN [code |-> Null, errors |-> Some(errors)]
        ELSE [code |-> Some(blocks), errors |-> Null]

\* The facade Deserialize: one method per enumeration, interface and
\* concrete class, each calling the method of the same name of
\* DeserializeImplementation.
DeserializeOf(our_type) ==
    IF our_type.kind = "Enumeration"
    THEN <<enum_name(our_type.name) \o "From">>
    ELSE IF our_type.kind = "ConstrainedPrimitive"
    THEN <<>>
    ELSE (IF our_type.interface # Null
          THEN <<interface_name(our_type.interface[1].name) \o "From">>
          ELSE <<>>)
         \o (IF our_type.kind = "ConcreteClass"
             THEN <<class_name(our_type.name) \o "From">>
             ELSE <<>>)

_generate_deserialize(st) == Concat([i \in DOMAIN st |-> DeserializeOf(st[i])])

\* The class Serialize: ToJsonObject and one method per enumeration.
_generate_serialize(st) ==
    <<"ToJsonObject">>
    \o Concat([i \in DOMAIN st |->
                 IF st[i].kind = "Enumeration"
                 THEN <<enum_name(st[i].name) \o "ToJsonValue">>
                 ELSE <<>>])

\* The end of generate(), given what _generate_deserialize_impl and
\* _generate_transformer returned.
Jsonization(st, deserialize_impl, transformer) ==
    LET errors == (IF deserialize_impl.errors # Null THEN deserialize_impl.errors[1] ELSE <<>>)
                  \o (IF transformer.errors # Null THEN transformer.errors[1] ELSE <<>>)
    IN  IF deserialize_impl.thrown # ""
        THEN [code |-> Null, errors |-> Null, thrown |-> deserialize_impl.thrown]
        ELSE IF Len(errors) > 0
        THEN [code |-> Null, errors |-> Some(errors), thrown |-> ""]
        ELSE [code |-> Some([deserialize_impl |-> deserialize_impl.code[1],
                             exception |-> "Jsonization.Exception",
                             deserialize |-> _generate_deserialize(st),
                             transformer |-> transformer.code[1],
                             serialize |-> _generate_serialize(st),
                             end |-> "\n"]),
              errors |-> Null,
              thrown |-> ""]

\* generate(): the errors of both engines, or the code, which ends in a
\* newline; an exception of _generate_deserialize_impl leaves generate().
generate(st, impls) ==
    Jsonization(st, _generate_deserialize_impl(st, impls), _generate_transformer(st, impls))

(***************************************************************************)
(* The build of the emitted code.  The statement of a property converts    *)
(* the expression "that.<Property>", whose type is the type of the         *)
(* property: "long?" for an optional 64-bit integer.  The one overload of  *)
(* Transformer.ToJsonValue takes a "long", and C# converts no "long?" to a *)
(* "long" implicitly (error CS1503), also not inside                       *)
(* "if (that.<Property> != null)".  The other conversions take the         *)
(* nullable types: Nodes.JsonValue.Create has the overloads for "bool?"    *)
(* and "double?", strings, byte arrays, lists and instances are            *)
(* references, and the statement of an optional enumeration converts the   *)
(* local "value" of the null-coalescing.  The emitted code is one file:    *)
(* where one statement is rejected, no class of the file is built.         *)
(***************************************************************************)
\* The statement of a property passes an argument of the type of the
\* parameter.
WellTyped(st, r, stmt) ==
    ~(/\ stmt.conversion.how = "Transformer.ToJsonValue"
      /\ ~stmt.list
      /\ OurType(st, r.cls).properties[stmt.source].type_annotation.k = "optional")

\* The compiler accepts the emitted transformer.
Builds(st, transformer) ==
    \A i \in DOMAIN transformer :
        transformer[i].kind = "transform" =>
            \A p \in DOMAIN transformer[i].stmts :
                WellTyped(st, transformer[i], transformer[i].stmts[p])

(***************************************************************************)
(* The behaviour of the emitted serialization: the outcome is the JSON     *)
(* node, or the exception which escaped; where the code is not built, no   *)
(* call runs and the outcome is the error of the compiler.                 *)
(***************************************************************************)
Emitted(n) == [result |-> Some(n), thrown |-> ""]

Raised(exception) == [result |-> Null, thrown |-> exception]

NotBuilt == [result |-> Null, thrown |-> "", error |-> "CS1503"]

\* Transformer.ToJsonValue(long): the check of the lossless conversion.
ToJsonValue(n) ==
    IF ToDouble(n) # n
    THEN Raised("System.ArgumentException")
    ELSE Emitted(JLong(n))

\* Serialize.<Enum>ToJsonValue
EnumToJsonValue(enumeration, value) ==
    LET text == EnumToString(enumeration, value.v[2])
    IN  IF text = Null
        THEN Raised("System.ArgumentException")
        ELSE Emitted(JStr(text[1]))

RECURSIVE Transform(_, _, _)
RECURSIVE TransformItems(_, _, _, _, _, _)
RECURSIVE TransformStmts(_, _, _, _, _, _)

\* The conversion of one atomic value which is not null.
ConvertValue(st, transformer, conversion, value) ==
    CASE conversion.how = "Nodes.JsonValue.Create" ->
            Emitted(CASE value.kind = "bool" -> JBool(value.v)
                      [] value.kind = "double" -> JDouble(value.v)
                      [] OTHER -> JStr(value.v))
      [] conversion.how = "Transformer.ToJsonValue" -> ToJsonValue(value.v)
      [] conversion.how = "System.Convert.ToBase64String" ->
            Emitted(JStr(ToBase64String(value.v)))
      [] conversion.how = "Serialize.ToJsonValue" ->
            EnumToJsonValue(OurType(st, conversion.of), value)
      [] OTHER -> Transform(st, transformer, value)

\* The conversion of a nullable value: Nodes.JsonValue.Create(null) is null,
\* System.Convert.ToBase64String(null) raises for its argument inArray, the
\* other conversions raise on null.
Convert(st, transformer, conversion, value) ==
    IF value # Null THEN ConvertValue(st, transformer, conversion, value[1])
    ELSE IF conversion.how = "Nodes.JsonValue.Create" THEN Emitted(JNull)
    ELSE IF conversion.how = "System.Convert.ToBase64String"
    THEN Raised("System.ArgumentNullException")
    ELSE Raised("System.NullReferenceException")

\* The foreach which fills the JSON array of a list property.
TransformItems(st, transformer, conversion, items, index, array) ==
    IF index > Len(items)
    THEN Emitted(JArr(array))
    ELSE LET item == Convert(st, transformer, conversion, Some(items[index]))
         IN  IF item.thrown # "" THEN item
             ELSE TransformItems(st, transformer, conversion, items, index + 1,
                                 Append(array, item.result[1]))

\* The statements of the properties, in the order of the properties; then the
\* model type, if any.  No statement runs where the compiler rejects a
\* statement of the file.
TransformStmts(st, transformer, r, instance, p, members) ==
    IF ~Builds(st, transformer) \/ \E q \in DOMAIN r.stmts : ~WellTyped(st, r, r.stmts[q])
    THEN NotBuilt
    ELSE IF p > Len(r.stmts)
    THEN Emitted(JObj(members \o
                      (IF r.model_type # Null
                       THEN <<Member("modelType", JStr(r.model_type[1]))>>
                       ELSE <<>>)))
    ELSE LET stmt == r.stmts[p]
             value == instance.props[stmt.source]
         IN  IF value = Null /\ stmt.if_not_null
             THEN TransformStmts(st, transformer, r, instance, p + 1, members)
             ELSE LET converted ==
                          IF ~stmt.list
                          THEN Convert(st, transformer, stmt.conversion, value)
                          ELSE IF value = Null
                          THEN Raised("System.NullReferenceException")
                          ELSE TransformItems(st, transformer, stmt.conversion,
                                              value[1].v, 1, <<>>)
                  IN  IF converted.thrown # "" THEN converted
                      ELSE TransformStmts(st, transformer, r, instance, p + 1,
                               Append(members, Member(stmt.json_name, converted.result[1])))

\* Transformer.Transform(that): the dispatch of Visitation.AbstractTransformer
\* on the runtime class of the instance.
Transform(st, transformer, instance) ==
    LET method == "Transform" \o class_name(instance.v.cls)
    IN  IF ~Builds(st, transformer) THEN NotBuilt
        ELSE IF ~HasRoutine(transformer, method) THEN Raised("no such method")
        ELSE IF RoutineOf(transformer, method).kind # "transform" THEN Raised("snippet")
        ELSE TransformStmts(st, transformer, RoutineOf(transformer, method),
                            instance.v, 1, <<>>)

(***************************************************************************)
(* The instances of the classes: the values a property can take.  The      *)
(* properties of a nested instance take one value per primitive.           *)
(***************************************************************************)
\* 2^53 + 1: a 64-bit integer which no double represents.
LossyLong == Num(1, 1, FALSE)

PrimitiveValues(a_type, nested) ==
    CASE a_type = "BOOL" -> {VBool(TRUE)}
      [] a_type = "INT" -> IF nested THEN {VLong(Int64(3))}
                           ELSE {VLong(Int64(3)), VLong(LossyLong)}
      [] a_type = "FLOAT" -> {VDouble(Num(0, 1, TRUE))}
      [] a_type = "STR" -> {VString("a")}
      [] a_type = "BYTEARRAY" -> {VBytes(<<1, 2>>)}

\* The sequences of at most n elements of a set.
RECURSIVE SeqsUpTo(_, _)
SeqsUpTo(S, n) ==
    IF n = 0 THEN {<<>>}
    ELSE SeqsUpTo(S, n - 1) \cup
         {Append(q, x) : q \in {t \in SeqsUpTo(S, n - 1) : Len(t) = n - 1}, x \in S}

\* The tuples which pick one element of each set of a sequence of sets.
RECURSIVE Tuples(_)
Tuples(sets) ==
    IF sets = <<>> THEN {<<>>}
    ELSE {<<x>> \o rest : x \in Head(sets), rest \in Tuples(Tail(sets))}

\* The concrete classes an instance of the class can be of.
ConcreteOf(st, cls) ==
    IF cls.interface # Null
    THEN {cls.interface[1].implementers[i] : i \in DOMAIN cls.interface[1].implementers}
    ELSE IF cls.kind = "ConcreteClass" THEN {cls.name} ELSE {}

RECURSIVE InstancesOf(_, _, _)
RECURSIVE ValuesOf(_, _, _)

\* The values of a type annotation; a property of an instance is nullable.
ValuesOf(st, type_annotation, nested) ==
    CASE type_annotation.k = "primitive" ->
            {Some(v) : v \in PrimitiveValues(type_annotation.a_type, nested)}
      [] type_annotation.k = "our" ->
            LET our_type == OurType(st, type_annotation.our_type)
            IN  CASE our_type.kind = "Enumeration" ->
                        {Some(VEnum(our_type.name, our_type.literals[i].name)) :
                            i \in IF nested THEN {1} ELSE DOMAIN our_type.literals}
                  [] our_type.kind = "ConstrainedPrimitive" ->
                        {Some(v) : v \in PrimitiveValues(our_type.constrainee, nested)}
                  [] OTHER ->
                        IF nested THEN {}
                        ELSE UNION {{Some(v) : v \in InstancesOf(st, OurType(st, c), TRUE)} :
                                       c \in ConcreteOf(st, our_type)}
      [] type_annotation.k = "list" ->
            {Some(VList([i \in DOMAIN q |-> q[i][1]])) :
                q \in SeqsUpTo(ValuesOf(st, type_annotation.items, nested), MaxItems)}
      [] OTHER -> {Null} \cup ValuesOf(st, type_annotation.value, nested)

InstancesOf(st, cls, nested) ==
    {VInstance(cls.name, props) :
        props \in Tuples([p \in DOMAIN cls.properties |->
                            ValuesOf(st, cls.properties[p].type_annotation, nested)])}

(***************************************************************************)
(* The JSON documents: the serializations of the instances and the         *)
(* documents one edit away from them.  An edit replaces a node, removes a  *)
(* member, adds an unknown member or the member "modelType", or moves a    *)
(* member to the front.                                                    *)
(***************************************************************************)
Replacements ==
    {JNull, JStr("Blob"), JStr("Square"), JDouble(Num(0, 1, TRUE)), JDouble(Int64(3)),
     JLong(Int64(3)), JObj(<<>>), JArr(<<>>)}

UnknownMembers == {Member("z", JNull), Member("z", JLong(Int64(9)))}

RemoveAt(q, i) == SubSeq(q, 1, i - 1) \o SubSeq(q, i + 1, Len(q))

HasKey(members, key) == \E i \in DOMAIN members : members[i].key = key

ObjectEdits(members) ==
    {RemoveAt(members, i) : i \in DOMAIN members}
    \cup {<<members[i]>> \o RemoveAt(members, i) : i \in DOMAIN members \ {1}}
    \cup {<<m>> \o members : m \in {u \in UnknownMembers : ~HasKey(members, u.key)}}
    \cup {Append(members, m) : m \in {u \in UnknownMembers : ~HasKey(members, u.key)}}
    \cup (IF HasKey(members, "modelType") THEN {}
          ELSE {Append(members, Member("modelType", JStr("Circle")))})

RECURSIVE EditsOf(_)
EditsOf(n) ==
    (Replacements \ {n})
    \cup (IF n.kind = "obj"
          THEN {JObj(members) : members \in ObjectEdits(n.v)}
               \cup UNION {{JObj([n.v EXCEPT ![i].value = e]) : e \in EditsOf(n.v[i].value)} :
                              i \in DOMAIN n.v}
          ELSE {})
    \cup (IF n.kind = "arr"
          THEN UNION {{JArr([n.v EXCEPT ![i] = e]) : e \in EditsOf(n.v[i])} :
                         i \in DOMAIN n.v}
          ELSE {})

(***************************************************************************)
(* The facade Deserialize over DeserializeImplementation.                  *)
(***************************************************************************)
\* Reporting.GenerateJsonPath: root first, ".name" for a name segment and
\* "[index]" for an index segment, as in "$.a.b[3].c".
GenerateJsonPath(segments) ==
    LET rendered[i \in 0..Len(segments)] ==
            IF i = 0 THEN "$"
            ELSE rendered[i - 1]
                 \o (IF segments[i].segment = "name"
                     THEN "." \o segments[i].name
                     ELSE "[" \o ToString(segments[i].index) \o "]")
    IN  rendered[Len(segments)]

\* Deserialize.<name>From without the throw of the exception.
DeserializeFrom_Silent(st, routines, name, n) ==
    LET returned == Invoke(st, routines, "DeserializeImplementation." \o name, n)
    IN  IF returned.thrown # ""
        THEN [result |-> Null, thrown |-> returned.thrown, path |-> "", cause |-> ""]
        ELSE IF returned.result = Null
        THEN [result |-> Null, thrown |-> "System.InvalidOperationException",
              path |-> "", cause |-> ""]
        ELSE [result |-> returned.result, thrown |-> "", path |-> "", cause |-> ""]

\* The body of Deserialize.<name>From: the exception carries the path and
\* the cause of the error; an exception of the called method passes through.
DeserializeFrom(st, routines, name, n) ==
    LET returned == Invoke(st, routines, "DeserializeImplementation." \o name, n)
    IN  IF returned.thrown # ""
        THEN [result |-> Null, thrown |-> returned.thrown, path |-> "", cause |-> ""]
        ELSE IF returned.error # Null
        THEN [result |-> Null, thrown |-> "Jsonization.Exception",
              path |-> GenerateJsonPath(returned.error[1].segments),
              cause |-> returned.error[1].cause]
        ELSE IF returned.result = Null
        THEN [result |-> Null, thrown |-> "System.InvalidOperationException",
              path |-> "", cause |-> ""]
        ELSE [result |-> returned.result, thrown |-> "", path |-> "", cause |-> ""]

(***************************************************************************)
(* The state machine: the generator runs once; when it emitted the code,   *)
(* the routines of the code are called on documents and instances.         *)
(***************************************************************************)
\* The emitted methods of DeserializeImplementation.
DeserializeImpl == generated.code[1].deserialize_impl

AllKeys(st) ==
    UNION {{DeserializeImplementationKey(st[i].name), TransformerKey(st[i].name)} :
              i \in {j \in DOMAIN st : st[j].is_implementation_specific}}

NotRun == [result |-> Null, error |-> Null, thrown |-> ""]

\* No call of the facade yet.
NotCalled == [result |-> Null, thrown |-> "", path |-> "", cause |-> ""]

\* No call of the parser of a class is under way.
Idle == [phase |-> "", index |-> 0, slots |-> <<>>, outcome |-> NotRun]

\* No input is given to a function of the libraries, and none has returned.
NothingGiven == [what |-> "", value |-> Null]

NothingYielded == [function |-> "", result |-> Null, thrown |-> ""]

Init ==
    /\ symbol_table \in SymbolTables
    /\ spec_impls \in SUBSET AllKeys(symbol_table)
    /\ generated = [code |-> Null, errors |-> Null, thrown |-> ""]
    /\ runtime = FirstRuntime
    /\ routine = ""
    /\ node = JNull
    /\ that = Null
    /\ json = [result |-> Null, thrown |-> ""]
    /\ out = NotRun
    /\ facade = NotCalled
    /\ call = Idle
    /\ pc = "start"
    /\ given = NothingGiven
    /\ yielded = NothingYielded

Generate ==
    /\ pc = "start"
    /\ generated' = generate(symbol_table, spec_impls)
    /\ pc' = IF generated'.thrown # "" THEN "raised"
             ELSE IF generated'.code # Null THEN "generated"
             ELSE "rejected"
    /\ UNCHANGED <<runtime, given, yielded, symbol_table, spec_impls, routine, node, that, json,
                   out, facade, call>>

\* The emitted code is built: its methods can be called.
Built == Builds(symbol_table, generated.code[1].transformer)

\* The concrete classes whose codec is generated.
GeneratedClasses(st) ==
    {st[i].name : i \in {j \in DOMAIN st : /\ st[j].kind = "ConcreteClass"
                                           /\ ~st[j].is_implementation_specific}}

\* The documents a parser is given for a serialized value: the serialization
\* and the documents one edit away from it, each as it is made of the nodes
\* of JsonValue.Create and as it is read from its text; the node is never
\* null.
DocsOf(serialized) ==
    LET made == ({serialized} \cup EditsOf(serialized)) \ {JNull}
    IN  made \cup {JsonNodeParse(n) : n \in made}

\* The causes which show the class of a value node: what was expected and a
\* value node of each type.
ClassOfValueShown ==
    {"Expected a JsonObject, but got ", "Expected a JsonArray, but got ",
     "Expected JsonValue, but got "}
    \X HeldTypes

\* The cause of the outcome shows the class of a value node.
ShowsClassOfValue(outcome) ==
    /\ outcome.error # Null
    /\ \E shown \in ClassOfValueShown :
          outcome.error[1].cause = shown[1] \o ClassOfValue(runtime, shown[2])

\* The cause of the outcome shows the text of the exception of the runtime.
ShowsException(outcome) ==
    /\ outcome.error # Null
    /\ outcome.error[1].cause = FormatExceptionCause(runtime)

\* The outcome under the runtime r of a call whose outcome under the runtime
\* of the state is given: the runtime shows in the outcome only through the
\* class of a value node and the text of the exception in the cause.
OutcomeUnder(r, outcome) ==
    IF ShowsClassOfValue(outcome)
    THEN LET shown == CHOOSE shown \in ClassOfValueShown :
                         outcome.error[1].cause
                         = shown[1] \o ClassOfValue(runtime, shown[2])
         IN  [outcome EXCEPT !.error[1].cause = shown[1] \o ClassOfValue(r, shown[2])]
    ELSE IF ShowsException(outcome)
    THEN [outcome EXCEPT !.error[1].cause = FormatExceptionCause(r)]
    ELSE outcome

\* The runtimes and the outcomes of a call whose outcome under the runtime of
\* the state is given; where the outcome does not show the runtime, the state
\* keeps the runtime it has.
OutcomesUnder(outcome) ==
    {[runtime |-> r, out |-> OutcomeUnder(r, outcome)] :
        r \in {r \in Runtimes :
                  /\ ~ShowsClassOfValue(outcome) => r.release = runtime.release
                  /\ ~ShowsException(outcome) => /\ r.location = runtime.location
                                                   /\ r.newline = runtime.newline}}

\* The emitted method runs on the document under one of the runtimes.
Run(method, n) ==
    \E ran \in OutcomesUnder(Invoke(symbol_table, generated.code[1].deserialize_impl,
                                    method, n)) :
       /\ runtime' = ran.runtime
       /\ out' = ran.out

\* A call of a method of DeserializeImplementation on a document which
\* derives from the serialization of the value v.
Call(method, v, serialized, n) ==
    /\ serialized.thrown = ""
    /\ routine' = method
    /\ that' = Some(v)
    /\ json' = serialized
    /\ node' = n
    /\ pc' = "parsed"
    /\ UNCHANGED <<given, yielded, symbol_table, spec_impls, generated, facade, call>>
    /\ Run(method, n)

\* DeserializeImplementation.<Class>From(node, out error)
ParseClass ==
    /\ pc = "generated"
    /\ Built
    /\ \E c \in GeneratedClasses(symbol_table) :
          \E v \in InstancesOf(symbol_table, OurType(symbol_table, c), FALSE) :
             LET serialized == Transform(symbol_table, generated.code[1].transformer, v)
             IN  \E n \in IF serialized.thrown = "" THEN DocsOf(serialized.result[1]) ELSE {} :
                    Call("DeserializeImplementation." \o class_name(c) \o "From",
                         v, serialized, n)

\* DeserializeImplementation.<Interface>From(node, out error)
ParseInterface ==
    /\ pc = "generated"
    /\ Built
    /\ \E i \in DOMAIN symbol_table :
          /\ IsClass(symbol_table[i])
          /\ symbol_table[i].interface # Null
          /\ \E c \in ConcreteOf(symbol_table, symbol_table[i]) \cap GeneratedClasses(symbol_table) :
                \E v \in InstancesOf(symbol_table, OurType(symbol_table, c), FALSE) :
                   LET serialized == Transform(symbol_table, generated.code[1].transformer, v)
                   IN  \E n \in IF serialized.thrown = "" THEN DocsOf(serialized.result[1]) ELSE {} :
                          Call("DeserializeImplementation."
                               \o interface_name(symbol_table[i].interface[1].name) \o "From",
                               v, serialized, n)

\* DeserializeImplementation.<Enumeration>From(node, out error)
ParseEnumeration ==
    /\ pc = "generated"
    /\ Built
    /\ \E i \in DOMAIN symbol_table :
          /\ symbol_table[i].kind = "Enumeration"
          /\ \E l \in DOMAIN symbol_table[i].literals :
                LET v == VEnum(symbol_table[i].name, symbol_table[i].literals[l].name)
                    serialized == EnumToJsonValue(symbol_table[i], v)
                IN  \E n \in IF serialized.thrown = "" THEN DocsOf(serialized.result[1]) ELSE {} :
                       Call("DeserializeImplementation." \o enum_name(symbol_table[i].name)
                            \o "From", v, serialized, n)

\* Serialize.ToJsonObject(that)
Serialize ==
    /\ pc = "generated"
    /\ Built
    /\ \E c \in GeneratedClasses(symbol_table) :
          \E v \in InstancesOf(symbol_table, OurType(symbol_table, c), FALSE) :
             /\ that' = Some(v)
             /\ json' = Transform(symbol_table, generated.code[1].transformer, v)
    /\ pc' = "serialized"
    /\ UNCHANGED <<runtime, given, yielded, symbol_table, spec_impls, generated, routine, node,
                   out, facade, call>>

\* The build of a program which serializes an instance with the emitted
\* code fails: nothing is emitted for the instance.
FailToBuild ==
    /\ pc = "generated"
    /\ ~Built
    /\ \E c \in GeneratedClasses(symbol_table) :
          \E v \in InstancesOf(symbol_table, OurType(symbol_table, c), FALSE) :
             /\ that' = Some(v)
             /\ json' = Transform(symbol_table, generated.code[1].transformer, v)
    /\ pc' = "not built"
    /\ UNCHANGED <<runtime, given, yielded, symbol_table, spec_impls, generated, routine, node,
                   out, facade, call>>

\* The parser of the class of the instance reads what the serializer wrote.
ParseSerialized ==
    /\ pc = "serialized"
    /\ json.thrown = ""
    /\ routine' = "DeserializeImplementation." \o class_name(that[1].v.cls) \o "From"
    /\ node' = json.result[1]
    /\ pc' = "read back"
    /\ UNCHANGED <<given, yielded, symbol_table, spec_impls, generated, that, json,
                   facade, call>>
    /\ Run("DeserializeImplementation." \o class_name(that[1].v.cls) \o "From", json.result[1])

(***************************************************************************)
(* The method of a class, statement by statement: the cast of the node,    *)
(* one iteration of the foreach per step, the checks of the required       *)
(* arguments and the call of the constructor.  The call runs on the        *)
(* document of the state.  An exception which escapes the method ends the  *)
(* call in the phase "Faulted".                                            *)
(***************************************************************************)
\* The body of the foreach for one member: the switch on the key.
SwitchOnKey(st, routines, r, keyValue, slots) ==
    IF \E c \in DOMAIN r.cases : r.cases[c].json_name = keyValue.key
    THEN IF keyValue.value.kind = "null"
         THEN [ended |-> Null, slots |-> slots]
         ELSE ParseCase(st, routines,
                        r.cases[CHOOSE c \in DOMAIN r.cases :
                                   /\ r.cases[c].json_name = keyValue.key
                                   /\ \A d \in DOMAIN r.cases :
                                         r.cases[d].json_name = keyValue.key => c <= d],
                        keyValue.value, slots)
    ELSE IF r.model_type_case /\ keyValue.key = "modelType"
    THEN [ended |-> Null, slots |-> slots]
    ELSE [ended |-> Some(Fail(NewError("Unexpected property: " \o keyValue.key))),
          slots |-> slots]

\* How a call ends with an outcome: by the return of an error or of the
\* instance, or by an exception.
Ended(outcome) ==
    IF outcome.thrown # "" THEN "Faulted"
    ELSE IF outcome.error # Null THEN "Failed"
    ELSE "Constructed"

\* "Nodes.JsonObject? obj = node as Nodes.JsonObject; if (obj == null) ..."
BeginClassFrom ==
    /\ pc = "parsed"
    /\ HasRoutine(DeserializeImpl, routine)
    /\ RoutineOf(DeserializeImpl, routine).kind = "class"
    /\ call' = IF node.kind # "obj"
               THEN [phase |-> "Failed", index |-> 0, slots |-> <<>>,
                     outcome |-> Fail(NewError("Expected a JsonObject, but got "
                                               \o GetType(node)))]
               ELSE [phase |-> "ScanningKeys", index |-> 1,
                     slots |-> [i \in DOMAIN RoutineOf(DeserializeImpl, routine).cases |-> Null],
                     outcome |-> NotRun]
    /\ pc' = "stepping"
    /\ UNCHANGED <<runtime, given, yielded, symbol_table, spec_impls, generated, routine, node,
                   that, json, out, facade>>

\* One iteration of "foreach (var keyValue in obj)", or the end of the loop.
ScanKey ==
    /\ pc = "stepping"
    /\ call.phase = "ScanningKeys"
    /\ IF call.index > Len(node.v)
       THEN call' = [call EXCEPT !.phase = "ValidatingRequired"]
       ELSE LET step == SwitchOnKey(symbol_table, DeserializeImpl,
                                    RoutineOf(DeserializeImpl, routine),
                                    node.v[call.index], call.slots)
            IN  IF step.ended # Null
                THEN call' = [call EXCEPT !.phase = Ended(step.ended[1]),
                                          !.outcome = step.ended[1]]
                ELSE call' = [call EXCEPT !.index = call.index + 1,
                                          !.slots = step.slots]
    /\ UNCHANGED <<runtime, given, yielded, symbol_table, spec_impls, generated, routine, node,
                   that, json, out, facade, pc>>

\* The checks "if (the_x == null)" of the required arguments.
ValidateRequired ==
    /\ pc = "stepping"
    /\ call.phase = "ValidatingRequired"
    /\ LET missing == CheckRequired(RoutineOf(DeserializeImpl, routine), call.slots)
       IN  IF missing # Null
           THEN call' = [call EXCEPT !.phase = "Failed", !.outcome = missing[1]]
           ELSE call' = [call EXCEPT !.phase = "Constructing"]
    /\ UNCHANGED <<runtime, given, yielded, symbol_table, spec_impls, generated, routine, node,
                   that, json, out, facade, pc>>

\* "return new Aas.<Class>(...)"
CallConstructor ==
    /\ pc = "stepping"
    /\ call.phase = "Constructing"
    /\ LET outcome == Construct(symbol_table, RoutineOf(DeserializeImpl, routine), call.slots)
       IN  call' = [call EXCEPT !.phase = Ended(outcome), !.outcome = outcome]
    /\ UNCHANGED <<runtime, given, yielded, symbol_table, spec_impls, generated, routine, node,
                   that, json, out, facade, pc>>

\* Deserialize.<name>From(node) on the document the method of the same name
\* of DeserializeImplementation was called on.
Deserialize ==
    /\ pc = "parsed"
    /\ \E i \in DOMAIN generated.code[1].deserialize :
          /\ routine = "DeserializeImplementation." \o generated.code[1].deserialize[i]
          /\ facade' = DeserializeFrom(symbol_table, DeserializeImpl,
                                       generated.code[1].deserialize[i], node)
    /\ pc' = "deserialized"
    /\ UNCHANGED <<runtime, given, yielded, symbol_table, spec_impls, generated, routine, node,
                   that, json, out, call>>

Next ==
    \/ Generate
    \/ ParseClass
    \/ ParseInterface
    \/ ParseEnumeration
    \/ Serialize
    \/ FailToBuild
    \/ ParseSerialized
    \/ Deserialize
    \/ BeginClassFrom
    \/ ScanKey
    \/ ValidateRequired
    \/ CallConstructor

Spec == Init /\ [][Next]_vars

(***************************************************************************)
(* The calls of the emitted methods frame by frame.  A method of the       *)
(* transformer and a parser of a class call the method of a nested         *)
(* instance and of a nested object: the call is a frame on the stack of    *)
(* the runtime, the return takes the frame off.  The instances are         *)
(* objects of the classes Aas.<Class>: a property of the type of a class   *)
(* holds a reference to an object, and the properties can be assigned      *)
(* after the construction, so that an object can be referred to from       *)
(* several places, also from itself or from an object it refers to.  A     *)
(* JSON node has one parent: the documents are trees.  The stack of the    *)
(* runtime has room for MaxStack frames; a call beyond it ends the process *)
(* (StackOverflowException cannot be caught).                              *)
(***************************************************************************)
\* The objects on the heap.
MaxObjects == 2

\* The frames the stack of the runtime has room for.
MaxStack == 4

VRef(address) == [kind |-> "ref", v |-> address]

\* The values a property of an object can hold: a reference where the type
\* is a class.
RECURSIVE FieldsOf(_, _)
FieldsOf(st, type_annotation) ==
    CASE type_annotation.k = "primitive" -> ValuesOf(st, type_annotation, TRUE)
      [] type_annotation.k = "our" ->
            IF IsClass(OurType(st, type_annotation.our_type))
            THEN {Some(VRef(a)) : a \in 1..MaxObjects}
            ELSE ValuesOf(st, type_annotation, TRUE)
      [] type_annotation.k = "list" ->
            {Some(VList([i \in DOMAIN q |-> q[i][1]])) :
                q \in SeqsUpTo(FieldsOf(st, type_annotation.items), MaxItems)}
      [] OTHER -> {Null} \cup FieldsOf(st, type_annotation.value)

ObjectsOf(st, cls) ==
    {[cls |-> cls.name, props |-> props] :
        props \in Tuples([p \in DOMAIN cls.properties |->
                            FieldsOf(st, cls.properties[p].type_annotation)])}

\* The heaps: every address holds an object of a class of the schema.
Heaps(st) ==
    [1..MaxObjects -> UNION {ObjectsOf(st, OurType(st, c)) : c \in GeneratedClasses(st)}]

\* The addresses the object at an address refers to.
RefsOf(heap, a) ==
    UNION {IF heap[a].props[p] = Null THEN {}
           ELSE IF heap[a].props[p][1].kind = "ref" THEN {heap[a].props[p][1].v}
           ELSE IF heap[a].props[p][1].kind = "list"
           THEN {heap[a].props[p][1].v[i].v :
                    i \in {j \in DOMAIN heap[a].props[p][1].v :
                              heap[a].props[p][1].v[j].kind = "ref"}}
           ELSE {} : p \in DOMAIN heap[a].props}

\* The addresses reached from a set of addresses in at most n references.
RECURSIVE ReachedFrom(_, _, _)
ReachedFrom(heap, from, n) ==
    IF n = 0 THEN from
    ELSE ReachedFrom(heap, from \cup UNION {RefsOf(heap, a) : a \in from}, n - 1)

\* An object reached from the address refers back to itself.
Cyclic(heap, root) ==
    \E a \in ReachedFrom(heap, {root}, MaxObjects) :
        a \in ReachedFrom(heap, RefsOf(heap, a), MaxObjects)

\* The instance at an address as a value, its references followed at most
\* n deep.
RECURSIVE Unfold(_, _, _)
Unfold(heap, a, n) ==
    VInstance(heap[a].cls,
        [p \in DOMAIN heap[a].props |->
            LET value == heap[a].props[p]
            IN  IF value = Null \/ n = 0 THEN Null
                ELSE IF value[1].kind = "ref" THEN Some(Unfold(heap, value[1].v, n - 1))
                ELSE IF value[1].kind = "list"
                THEN Some(VList([i \in DOMAIN value[1].v |->
                                    IF value[1].v[i].kind = "ref"
                                    THEN Unfold(heap, value[1].v[i].v, n - 1)
                                    ELSE value[1].v[i]]))
                ELSE value])

\* The frame of a call which has not run its first statement: the method,
\* the address of the instance or the position of the node in the document,
\* the node, the statement or the member which is next, the items of the
\* list which are done, the members or the argument variables so far, the
\* items so far, and the outcome once the method comes to its return.
Frame(method, at, n) ==
    [method |-> method, at |-> at, node |-> n, index |-> 0, item |-> 0,
     slots |-> <<>>, items |-> <<>>, ended |-> Null]

Transformer == generated.code[1].transformer

\* The case of the switch for a key.
CaseOf(r, key) ==
    r.cases[CHOOSE c \in DOMAIN r.cases :
               /\ r.cases[c].json_name = key
               /\ \A d \in DOMAIN r.cases : r.cases[d].json_name = key => c <= d]

\* The reference on which the statement which is next in the frame of a
\* method of the transformer calls Transform, if it calls it.
TransformCallee(transformer, heap, f) ==
    LET r == RoutineOf(transformer, f.method)
    IN  IF f.index = 0 \/ f.index > Len(r.stmts) THEN Null
        ELSE LET stmt == r.stmts[f.index]
                 value == heap[f.at].props[stmt.source]
             IN  IF stmt.conversion.how # "Transform" \/ value = Null THEN Null
                 ELSE IF ~stmt.list THEN value
                 ELSE IF f.item < Len(value[1].v) THEN Some(value[1].v[f.item + 1])
                 ELSE Null

\* The node on which the switch on the member which is next in the frame of
\* the parser of a class calls the parser of a class, if it calls one.
FromCallee(routines, f) ==
    LET r == RoutineOf(routines, f.method)
    IN  IF f.index = 0 \/ f.index > Len(f.node.v) THEN Null
        ELSE LET keyValue == f.node.v[f.index]
             IN  IF ~(\E c \in DOMAIN r.cases : r.cases[c].json_name = keyValue.key)
                    \/ keyValue.value.kind = "null"
                 THEN Null
                 ELSE LET case == CaseOf(r, keyValue.key)
                      IN  IF ~HasRoutine(routines, case.parse_method) THEN Null
                          ELSE IF RoutineOf(routines, case.parse_method).kind # "class"
                          THEN Null
                          ELSE IF ~case.list THEN Some(keyValue.value)
                          ELSE IF keyValue.value.kind # "arr" THEN Null
                          ELSE IF f.item >= Len(keyValue.value.v) THEN Null
                          ELSE IF keyValue.value.v[f.item + 1].kind = "null" THEN Null
                          ELSE Some(keyValue.value.v[f.item + 1])

\* The frame of a method of the transformer after its next statement, which
\* calls no method of the transformer: "var result = new Nodes.JsonObject()",
\* the statement of a property or of an item of its list, or the model
\* type and "return result".
TransformStep(st, transformer, heap, f) ==
    LET r == RoutineOf(transformer, f.method)
    IN  IF f.index = 0 THEN [f EXCEPT !.index = 1]
        ELSE IF f.index > Len(r.stmts)
        THEN [f EXCEPT !.ended =
                 Some(Emitted(JObj(f.slots \o
                                   (IF r.model_type # Null
                                    THEN <<Member("modelType", JStr(r.model_type[1]))>>
                                    ELSE <<>>))))]
        ELSE LET stmt == r.stmts[f.index]
                 value == heap[f.at].props[stmt.source]
             IN  IF value = Null /\ stmt.if_not_null
                 THEN [f EXCEPT !.index = f.index + 1]
                 ELSE IF ~stmt.list
                 THEN LET converted == Convert(st, transformer, stmt.conversion, value)
                      IN  IF converted.thrown # ""
                          THEN [f EXCEPT !.ended = Some(converted)]
                          ELSE [f EXCEPT !.index = f.index + 1,
                                         !.slots = Append(f.slots,
                                                          Member(stmt.json_name,
                                                                 converted.result[1]))]
                 ELSE IF value = Null
                 THEN [f EXCEPT !.ended = Some(Raised("System.NullReferenceException"))]
                 ELSE IF f.item >= Len(value[1].v)
                 THEN [f EXCEPT !.index = f.index + 1,
                                !.item = 0,
                                !.items = <<>>,
                                !.slots = Append(f.slots,
                                                 Member(stmt.json_name, JArr(f.items)))]
                 ELSE LET converted == Convert(st, transformer, stmt.conversion,
                                               Some(value[1].v[f.item + 1]))
                      IN  IF converted.thrown # ""
                          THEN [f EXCEPT !.ended = Some(converted)]
                          ELSE [f EXCEPT !.item = f.item + 1,
                                         !.items = Append(f.items, converted.result[1])]

\* The frame of the parser of a class after its next statement, which calls
\* no parser of a class: the cast of the node, one iteration of the foreach
\* or of the foreach over the items of an array, or the checks of the
\* required arguments and the call of the constructor.
FromStep(st, routines, f) ==
    LET r == RoutineOf(routines, f.method)
    IN  IF f.index = 0
        THEN IF f.node.kind = "null"
             THEN [f EXCEPT !.ended = Some(Throw("System.NullReferenceException"))]
             ELSE IF f.node.kind # "obj"
             THEN [f EXCEPT !.ended = Some(Fail(NewError("Expected a JsonObject, but got "
                                                         \o GetType(f.node))))]
             ELSE [f EXCEPT !.index = 1, !.slots = [i \in DOMAIN r.cases |-> Null]]
        ELSE IF f.index > Len(f.node.v)
        THEN IF CheckRequired(r, f.slots) # Null
             THEN [f EXCEPT !.ended = CheckRequired(r, f.slots)]
             ELSE [f EXCEPT !.ended = Some(Construct(st, r, f.slots))]
        ELSE LET keyValue == f.node.v[f.index]
             IN  IF ~(\E c \in DOMAIN r.cases : r.cases[c].json_name = keyValue.key)
                 THEN IF r.model_type_case /\ keyValue.key = "modelType"
                      THEN [f EXCEPT !.index = f.index + 1]
                      ELSE [f EXCEPT !.ended =
                               Some(Fail(NewError("Unexpected property: " \o keyValue.key)))]
                 ELSE IF keyValue.value.kind = "null"
                 THEN [f EXCEPT !.index = f.index + 1]
                 ELSE LET case == CaseOf(r, keyValue.key)
                      IN  IF ~case.list
                          THEN LET step == ParseCase(st, routines, case, keyValue.value,
                                                     f.slots)
                               IN  IF step.ended # Null
                                   THEN [f EXCEPT !.ended = step.ended]
                                   ELSE [f EXCEPT !.index = f.index + 1,
                                                  !.slots = step.slots]
                          ELSE IF keyValue.value.kind # "arr"
                          THEN [f EXCEPT !.ended =
                                   Some(Fail(PrependSegment(
                                       NewError("Expected a JsonArray, but got "
                                                \o GetType(keyValue.value)),
                                       NameSegment(case.json_name))))]
                          ELSE IF f.item >= Len(keyValue.value.v)
                          THEN [f EXCEPT !.index = f.index + 1,
                                         !.item = 0,
                                         !.items = <<>>,
                                         !.slots[case.target] = Some(VList(f.items))]
                          ELSE LET step == ParseItems(st, routines, case,
                                                      SubSeq(keyValue.value.v, 1, f.item + 1),
                                                      f.item + 1, f.items)
                               IN  IF step.ended # Null
                                   THEN [f EXCEPT !.ended = step.ended]
                                   ELSE [f EXCEPT !.item = f.item + 1,
                                                  !.items = step.list]

\* The frame of the caller after the method it called returned the JSON
\* object, or raised.
TransformReturned(transformer, f, outcome) ==
    LET stmt == RoutineOf(transformer, f.method).stmts[f.index]
    IN  IF outcome.thrown # "" THEN [f EXCEPT !.ended = Some(outcome)]
        ELSE IF stmt.list
        THEN [f EXCEPT !.item = f.item + 1,
                       !.items = Append(f.items, outcome.result[1])]
        ELSE [f EXCEPT !.index = f.index + 1,
                       !.slots = Append(f.slots, Member(stmt.json_name, outcome.result[1]))]

\* The frame of the caller after the parser it called returned the instance
\* or the error, or raised: the error is returned with the segment of the
\* index, for an item of a list, and the segment of the name before it.
FromReturned(routines, f, outcome) ==
    LET case == CaseOf(RoutineOf(routines, f.method), f.node.v[f.index].key)
    IN  IF outcome.thrown # "" THEN [f EXCEPT !.ended = Some(outcome)]
        ELSE IF outcome.error # Null
        THEN [f EXCEPT !.ended =
                 Some(Fail(PrependSegment(
                     IF case.list
                     THEN PrependSegment(outcome.error[1], IndexSegment(f.item))
                     ELSE outcome.error[1],
                     NameSegment(case.json_name))))]
        ELSE IF outcome.result = Null
        THEN [f EXCEPT !.ended = Some(Throw("System.InvalidOperationException"))]
        ELSE IF case.list
        THEN [f EXCEPT !.item = f.item + 1,
                       !.items = Append(f.items, outcome.result[1])]
        ELSE [f EXCEPT !.index = f.index + 1,
                       !.slots[case.target] = outcome.result]

\* The frame on top of the stack: the method which runs.
Top == call.stack[Len(call.stack)]

\* What the statement which is next calls a method on, if it calls one.
Callee ==
    IF call.walk = "serialize" THEN TransformCallee(Transformer, given.value, Top)
    ELSE FromCallee(DeserializeImpl, Top)

\* The frame of the method called on the callee.
FrameOf(callee) ==
    IF call.walk = "serialize"
    THEN Frame("Transform" \o class_name(given.value[callee.v].cls), callee.v, JNull)
    ELSE Frame(CaseOf(RoutineOf(DeserializeImpl, Top.method),
                      Top.node.v[Top.index].key).parse_method,
               Top.at \o <<Top.index, Top.item + 1>>, callee)

WalkInit ==
    /\ symbol_table = RecursiveModel
    /\ spec_impls = {}
    /\ generated = [code |-> Null, errors |-> Null, thrown |-> ""]
    /\ runtime = FirstRuntime
    /\ routine = ""
    /\ node = JNull
    /\ that = Null
    /\ json = [result |-> Null, thrown |-> ""]
    /\ out = NotRun
    /\ facade = NotCalled
    /\ call = [walk |-> "", stack |-> <<>>]
    /\ pc = "start"
    /\ given = NothingGiven
    /\ yielded = NothingYielded

\* Serialize.ToJsonObject(that) on an instance on a heap: the call of
\* Transformer.Transform(that), which dispatches on the class of the
\* instance.
CallTransform ==
    /\ pc = "generated"
    /\ Built
    /\ \E heap \in Heaps(symbol_table) :
          /\ given' = [what |-> "heap", value |-> heap]
          /\ that' = Some(VRef(1))
          /\ call' = [walk |-> "serialize",
                      stack |-> <<Frame("Transform" \o class_name(heap[1].cls), 1, JNull)>>]
    /\ routine' = "Serialize.ToJsonObject"
    /\ pc' = "walking"
    /\ UNCHANGED <<runtime, yielded, symbol_table, spec_impls, generated, node, json, out,
                   facade>>

\* The call of the parser of a class on a document.
CallFrom ==
    /\ pc = "generated"
    /\ Built
    /\ \E c \in GeneratedClasses(symbol_table) :
          \E v \in InstancesOf(symbol_table, OurType(symbol_table, c), FALSE) :
             \E n \in DocsOf(Transform(symbol_table, Transformer, v).result[1]) :
                /\ routine' = "DeserializeImplementation." \o class_name(c) \o "From"
                /\ node' = n
                /\ call' = [walk |-> "parse",
                            stack |-> <<Frame("DeserializeImplementation."
                                              \o class_name(c) \o "From", <<>>, n)>>]
    /\ pc' = "walking"
    /\ UNCHANGED <<runtime, given, yielded, symbol_table, spec_impls, generated, that, json,
                   out, facade>>

\* The method which runs executes its next statement, which calls no method
\* of a class.
ExecuteStatement ==
    /\ pc = "walking"
    /\ Top.ended = Null
    /\ Callee = Null
    /\ call' = [call EXCEPT !.stack[Len(call.stack)] =
                   IF call.walk = "serialize"
                   THEN TransformStep(symbol_table, Transformer, given.value, Top)
                   ELSE FromStep(symbol_table, DeserializeImpl, Top)]
    /\ UNCHANGED <<runtime, given, yielded, symbol_table, spec_impls, generated, routine, node,
                   that, json, out, facade, pc>>

\* The next statement calls the method of a nested instance or of a nested
\* object: the call puts a frame on the stack.
CallMethod ==
    /\ pc = "walking"
    /\ Top.ended = Null
    /\ Callee # Null
    /\ Len(call.stack) < MaxStack
    /\ call' = [call EXCEPT !.stack = Append(call.stack, FrameOf(Callee[1]))]
    /\ UNCHANGED <<runtime, given, yielded, symbol_table, spec_impls, generated, routine, node,
                   that, json, out, facade, pc>>

\* The call for which the stack has no room: the runtime ends the process,
\* nothing is returned.
StackOverflow ==
    /\ pc = "walking"
    /\ Top.ended = Null
    /\ Callee # Null
    /\ Len(call.stack) = MaxStack
    /\ pc' = "stack overflow"
    /\ UNCHANGED <<runtime, given, yielded, symbol_table, spec_impls, generated, routine, node,
                   that, json, out, facade, call>>

\* The method which runs returns to its caller, or raises.
ReturnToCaller ==
    /\ pc = "walking"
    /\ Top.ended # Null
    /\ Len(call.stack) > 1
    /\ call' = [call EXCEPT !.stack =
                   [SubSeq(call.stack, 1, Len(call.stack) - 1) EXCEPT
                       ![Len(call.stack) - 1] =
                           IF call.walk = "serialize"
                           THEN TransformReturned(Transformer,
                                                  call.stack[Len(call.stack) - 1],
                                                  Top.ended[1])
                           ELSE FromReturned(DeserializeImpl,
                                             call.stack[Len(call.stack) - 1],
                                             Top.ended[1])]]
    /\ UNCHANGED <<runtime, given, yielded, symbol_table, spec_impls, generated, routine, node,
                   that, json, out, facade, pc>>

\* The method which was called first returns: the call is over.
ReturnOutcome ==
    /\ pc = "walking"
    /\ Top.ended # Null
    /\ Len(call.stack) = 1
    /\ IF call.walk = "serialize"
       THEN json' = Top.ended[1] /\ out' = out
       ELSE out' = Top.ended[1] /\ json' = json
    /\ call' = [call EXCEPT !.stack = <<>>]
    /\ pc' = "returned"
    /\ UNCHANGED <<runtime, given, yielded, symbol_table, spec_impls, generated, routine, node,
                   that, facade>>

WalkNext ==
    \/ Generate
    \/ CallTransform
    \/ CallFrom
    \/ ExecuteStatement
    \/ CallMethod
    \/ StackOverflow
    \/ ReturnToCaller
    \/ ReturnOutcome

\* A method which is called runs to its end: nothing in the generated code
\* blocks or waits, so the statement which is next is executed.
WalkSpec == WalkInit /\ [][WalkNext]_vars /\ WF_vars(WalkNext)

\* The call of the parser which went frame by frame returned what the parser
\* returns.
WalkOfParser ==
    (pc = "returned" /\ call.walk = "parse") =>
        out = Invoke(symbol_table, DeserializeImpl, routine, node)

\* The call of the transformer which went frame by frame returned what the
\* transformer returns for the instance; it returned since no instance
\* refers back to itself.
WalkOfTransformer ==
    (pc = "returned" /\ call.walk = "serialize") =>
        /\ ~Cyclic(given.value, that[1].v)
        /\ json = Transform(symbol_table, Transformer,
                            Unfold(given.value, that[1].v, MaxObjects))

\* On the documents and on the instances which do not refer back to
\* themselves every call returns.
WalkOfTreeEnds ==
    (pc = "walking" /\ (call.walk = "serialize" => ~Cyclic(given.value, that[1].v)))
    ~> (pc = "returned")

\* No call on a document and on an instance which does not refer back to
\* itself runs out of the stack.
WalkOfTreeFits ==
    (pc = "stack overflow") => (call.walk = "serialize" /\ Cyclic(given.value, that[1].v))

(***************************************************************************)
(* What the properties below speak about.                                  *)
(***************************************************************************)
\* The outcome of the routine of the state on another document.
Parse(n) == Invoke(symbol_table, DeserializeImpl, routine, n)

\* The class whose parser ran, if the routine is the parser of a class.
ParsedClasses ==
    {OurType(symbol_table, c) :
        c \in {d \in GeneratedClasses(symbol_table) :
                 routine = "DeserializeImplementation." \o class_name(d) \o "From"}}

\* The interface whose dispatcher ran, if the routine is a dispatcher.
ParsedInterfaces ==
    {symbol_table[i].interface[1] :
        i \in {j \in DOMAIN symbol_table :
                 /\ IsClass(symbol_table[j])
                 /\ symbol_table[j].interface # Null
                 /\ routine = "DeserializeImplementation."
                              \o interface_name(symbol_table[j].interface[1].name)
                              \o "From"}}

\* The keys the schema gives to a class: the external names of the
\* constructor arguments, and the discriminator of a polymorphic class.
KnownKeys(cls) ==
    {json_property(cls.arguments[i].name) : i \in DOMAIN cls.arguments}
    \cup (IF cls.with_model_type THEN {"modelType"} ELSE {})

InsertAt(q, i, x) == SubSeq(q, 1, i - 1) \o <<x>> \o SubSeq(q, i, Len(q))

\* The members without the member of a key.
RECURSIVE WithoutKey(_, _)
WithoutKey(members, key) ==
    IF members = <<>> THEN <<>>
    ELSE (IF Head(members).key = key THEN <<>> ELSE <<Head(members)>>)
         \o WithoutKey(Tail(members), key)

IsParseError(o) == o.thrown = "" /\ o.error # Null /\ o.result = Null

(***************************************************************************)
(* C1 (round trip): for every concrete class whose codec is generated and  *)
(* every instance the serializer accepts, the parser of the class reads    *)
(* the serialization back without an error, as an equal instance.          *)
(* Stated as claimed; the code violates it for Holder, whose property is   *)
(* typed by Tag, a class with an interface which is not serialized with    *)
(* the model type.                                                         *)
(***************************************************************************)
C1_RoundTrip ==
    pc = "read back" =>
        /\ out.thrown = ""
        /\ out.error = Null
        /\ out.result = that

(***************************************************************************)
(* C2 (dual result): when a parse routine of an enumeration, an interface  *)
(* or a class returns, exactly one of the result and the error is not      *)
(* null.                                                                   *)
(***************************************************************************)
C2_ExactlyOneOfResultAndError ==
    (pc \in {"parsed", "read back"} /\ out.thrown = "") =>
        ((out.result = Null) # (out.error = Null))

\* An unknown literal: the parser of the enumeration returns the null result
\* of the lookup together with the error.
C2_Witness ==
    /\ pc = "parsed"
    /\ routine = "DeserializeImplementation.ColorFrom"
    /\ node = JStr("Blob")
    /\ out.thrown = ""
    /\ out.result = Null
    /\ out.error # Null

(***************************************************************************)
(* C3 (no fault): the parser of a class reports every failure through the  *)
(* returned error; no exception escapes it.  Stated as claimed; the code   *)
(* violates it for Label, whose constructor argument is optional while     *)
(* the property is required.                                               *)
(***************************************************************************)
C3_NoFaultEscapes ==
    (pc = "parsed" /\ ParsedClasses # {}) => out.thrown = ""

(***************************************************************************)
(* C4 (unknown key): an object with one key which the class does not know  *)
(* yields a parse error, whatever the values of the known keys and also    *)
(* when the value of the unknown key is null; the cause is "Unexpected     *)
(* property: <key>" when all the known keys are valid.  Stated as claimed; *)
(* the code violates it when the value of a known key makes the parser of  *)
(* a nested class raise (C3).                                              *)
(***************************************************************************)
C4_UnknownKeyRejected ==
    (pc = "parsed" /\ ParsedClasses # {} /\ node.kind = "obj") =>
        \A cls \in ParsedClasses :
            /\ (\E i \in DOMAIN node.v : node.v[i].key \notin KnownKeys(cls)) =>
                    IsParseError(out)
            /\ \A u \in {m \in UnknownMembers : ~HasKey(node.v, m.key)} :
                  \A i \in 1..(Len(node.v) + 1) :
                     LET o == Parse(JObj(InsertAt(node.v, i, u)))
                     IN  /\ IsParseError(o)
                         /\ node = json.result[1] =>
                                o.error[1].cause = "Unexpected property: " \o u.key

(***************************************************************************)
(* C5 (required property): when only the key of a non-optional property p  *)
(* is omitted from an otherwise valid object, the parser returns an error  *)
(* whose cause names the external name of p, and constructs no instance.   *)
(* Stated as claimed; the code violates it for the property text of        *)
(* Label, which is required while the constructor argument is optional     *)
(* (C3).                                                                   *)
(***************************************************************************)
C5_RequiredPropertyReported ==
    (pc = "parsed" /\ ParsedClasses # {}) =>
        \A cls \in ParsedClasses :
            \A p \in DOMAIN cls.properties :
                (/\ cls.properties[p].type_annotation.k # "optional"
                 /\ HasKey(json.result[1].v, json_property(cls.properties[p].name))
                 /\ node = JObj(WithoutKey(json.result[1].v,
                                           json_property(cls.properties[p].name))))
                => out = Fail(NewError("Required property \""
                                       \o json_property(cls.properties[p].name)
                                       \o "\" is missing"))

(***************************************************************************)
(* C6 (null as absent): for a known key x of a class, the object with      *)
(* "x": null has the same outcome as the object without x: the same        *)
(* instance when x is optional, the same error when x is required.         *)
(***************************************************************************)
C6_NullEqualsAbsent ==
    (pc = "parsed" /\ ParsedClasses # {} /\ node.kind = "obj") =>
        \A cls \in ParsedClasses :
            \A i \in DOMAIN node.v :
                node.v[i].key \in KnownKeys(cls) =>
                    LET absent == Parse(JObj(RemoveAt(node.v, i)))
                    IN  /\ Parse(JObj([node.v EXCEPT ![i].value = JNull])) = absent
                        /\ node.v[i].value = JNull => out = absent

\* The required x of Point is null: the error of the missing property.
C6_Witness ==
    /\ pc = "parsed"
    /\ routine = "DeserializeImplementation.PointFrom"
    /\ node = JObj(<<Member("x", JNull)>>)
    /\ out = Fail(NewError("Required property \"x\" is missing"))

(***************************************************************************)
(* C7 (index of a list item): when the first malformed or null item of     *)
(* the array of a list property is at index k, the parser returns an       *)
(* error whose path starts with the name of the property and the index k.  *)
(* An item is malformed when its own parse method does not accept it; the  *)
(* members before the list are accepted.  Stated as claimed; the code      *)
(* violates it when the parser of the item raises (C3).                    *)
(***************************************************************************)
Malformed(method, item) ==
    \/ item.kind = "null"
    \/ LET o == Invoke(symbol_table, DeserializeImpl, method, item)
       IN  ~(o.thrown = "" /\ o.error = Null)

FirstMalformed(method, items) ==
    CHOOSE k \in DOMAIN items :
        /\ Malformed(method, items[k])
        /\ \A j \in 1..(k - 1) : ~Malformed(method, items[j])

C7_ListIndexAttribution ==
    (pc = "parsed" /\ ParsedClasses # {} /\ node.kind = "obj") =>
        \A cls \in ParsedClasses :
            \A i \in DOMAIN node.v, a \in DOMAIN cls.arguments :
                LET type_anno == beneath_optional(cls.arguments[a].type_annotation)
                    method == _parse_method_for_atomic_value(symbol_table, type_anno.items)
                    items == node.v[i].value.v
                IN  (/\ node.v[i].key = json_property(cls.arguments[a].name)
                     /\ type_anno.k = "list"
                     /\ node.v[i].value.kind = "arr"
                     /\ \E k \in DOMAIN items : Malformed(method, items[k])
                     /\ ScanKeys(symbol_table, DeserializeImpl,
                                 RoutineOf(DeserializeImpl, routine),
                                 SubSeq(node.v, 1, i - 1), 1,
                                 [j \in DOMAIN cls.arguments |-> Null]).ended = Null)
                    => /\ IsParseError(out)
                       /\ Len(out.error[1].segments) >= 2
                       /\ out.error[1].segments[1] = NameSegment(node.v[i].key)
                       /\ out.error[1].segments[2]
                          = IndexSegment(FirstMalformed(method, items) - 1)

(***************************************************************************)
(* C8 (dispatch): on an object whose discriminator is a string, the        *)
(* dispatcher of an interface returns what the parser of the implementer   *)
(* with that model type returns on the same node, and when no implementer  *)
(* has that model type, the error which names the interface and the        *)
(* string.                                                                 *)
(***************************************************************************)
C8_DispatchByModelType ==
    (pc = "parsed" /\ ParsedInterfaces # {} /\ node.kind = "obj"
     /\ ModelTypeNode(node.v).kind = "str") =>
        \A interface \in ParsedInterfaces :
            LET modelType == ModelTypeNode(node.v).v
                matching == {i \in DOMAIN interface.implementers :
                                json_model_type(interface.implementers[i]) = modelType}
            IN  /\ \A i \in matching :
                      out = Invoke(symbol_table, DeserializeImpl,
                                   "DeserializeImplementation."
                                   \o class_name(interface.implementers[i]) \o "From",
                                   node)
                /\ matching = {} =>
                      out = Fail(NewError("Unexpected model type for "
                                          \o interface_name(interface.name)
                                          \o ": " \o modelType))

\* The serialization of a circle whose model type was replaced by "Square":
\* the parser of Square rejects the radius.
C8_Witness ==
    /\ pc = "parsed"
    /\ routine = "DeserializeImplementation.IShapeFrom"
    /\ that[1].v.cls = "Circle"
    /\ node.kind = "obj"
    /\ ModelTypeNode(node.v) = JStr("Square")
    /\ out = Fail(NewError("Unexpected property: radius"))

(***************************************************************************)
(* C9 (omission of the absent): the object the serializer emits for an     *)
(* instance has the key of an optional property if and only if the         *)
(* property is present, and never with the value null.  Stated as claimed, *)
(* for every class of every schema; the code emitted for a class with an   *)
(* optional 64-bit integer passes the long? of the property to             *)
(* ToJsonValue(long) and does not build, so that nothing is emitted for an *)
(* instance of the schema, the key of a present property included.         *)
(***************************************************************************)
C9_AbsentOptionalOmitted ==
    (pc \in {"serialized", "not built"} /\ json.thrown = "") =>
        LET cls == OurType(symbol_table, that[1].v.cls)
            members == IF json.result = Null THEN <<>> ELSE json.result[1].v
        IN  \A p \in DOMAIN cls.properties :
                cls.properties[p].type_annotation.k = "optional" =>
                    /\ HasKey(members, json_property(cls.properties[p].name))
                       <=> that[1].v.props[p] # Null
                    /\ \A i \in DOMAIN members :
                          members[i].key = json_property(cls.properties[p].name)
                          => members[i].value # JNull

(***************************************************************************)
(* C10 (code or errors): generate() returns either the errors or the       *)
(* code; the errors, when one of the two engines reported any, are the     *)
(* errors of the deserialization followed by those of the serialization,   *)
(* and the code ends with a newline.  Stated as claimed; the code raises   *)
(* for a class whose first required argument follows an optional one and   *)
(* returns neither.                                                        *)
(***************************************************************************)
C10_CodeXorErrors ==
    pc \in {"generated", "rejected", "raised"} =>
        LET deserialize_impl == _generate_deserialize_impl(symbol_table, spec_impls)
            transformer == _generate_transformer(symbol_table, spec_impls)
        IN  /\ (generated.code = Null) # (generated.errors = Null)
            /\ (deserialize_impl.errors # Null \/ transformer.errors # Null) =>
                  /\ generated.code = Null
                  /\ generated.errors =
                        Some(Concat(deserialize_impl.errors) \o Concat(transformer.errors))
            /\ (deserialize_impl.errors = Null /\ transformer.errors = Null) =>
                  /\ generated.errors = Null
                  /\ generated.code # Null
                  /\ generated.code[1].end = "\n"

(***************************************************************************)
(* C11 (missing snippets): the errors of generate() hold exactly one error *)
(* of the missing snippet for every implementation-specific concrete       *)
(* class and every direction whose key is not among the snippets, and      *)
(* none for a key which is among them, nor for any other type.  Stated as  *)
(* claimed; no error is returned when generate() raises (C10).             *)
(***************************************************************************)
MissingSnippet(name, key) ==
    Error("The jsonization snippet is missing for the implementation-specific class "
          \o name \o ": " \o key)

\* How often an error is among the errors generate() returned.
Reported(error) ==
    IF generated.errors = Null THEN 0
    ELSE Cardinality({j \in DOMAIN generated.errors[1] : generated.errors[1][j] = error})

C11_MissingSnippetErrors ==
    pc \in {"generated", "rejected", "raised"} =>
        \A i \in DOMAIN symbol_table :
            LET our_type == symbol_table[i]
            IN  \A key \in {DeserializeImplementationKey(our_type.name),
                            TransformerKey(our_type.name)} :
                    Reported(MissingSnippet(our_type.name, key))
                    = IF /\ our_type.kind = "ConcreteClass"
                         /\ our_type.is_implementation_specific
                         /\ key \notin spec_impls
                      THEN 1 ELSE 0

(***************************************************************************)
(* C12 (facade): when the method of DeserializeImplementation returned an  *)
(* error, the method of the same name of Deserialize raises a              *)
(* Jsonization.Exception with the rendered path of the segments of the     *)
(* error and with its cause; when it returned no error, the facade returns *)
(* the parsed value itself.                                                *)
(***************************************************************************)
C12_FacadeRaisesOrReturns ==
    (pc = "deserialized" /\ out.thrown = "") =>
        IF out.error # Null
        THEN /\ facade.thrown = "Jsonization.Exception"
             /\ facade.result = Null
             /\ facade.path = GenerateJsonPath(out.error[1].segments)
             /\ facade.cause = out.error[1].cause
        ELSE /\ facade.thrown = ""
             /\ facade.result = out.result
             /\ facade.result # Null

\* The second shape of a drawing is replaced by a string: the exception of
\* the facade carries the path to the item.
C12_Witness ==
    /\ pc = "deserialized"
    /\ routine = "DeserializeImplementation.DrawingFrom"
    /\ facade.thrown = "Jsonization.Exception"
    /\ facade.path = "$.shapes[1]"
    /\ facade.cause = "Expected Nodes.JsonObject, but got {node.GetType()}"

(***************************************************************************)
(* C13 (state machine of a class-parse call): the call moves from          *)
(* ScanningKeys to ValidatingRequired to Constructing, or into Failed,     *)
(* which is terminal.  The first member, in document order, whose key is   *)
(* unknown or whose value does not parse ends the call with that error:    *)
(* no later member is looked at, the required arguments are not checked    *)
(* and the constructor is not called.  The constructor is called only      *)
(* after all members were scanned and all required arguments are set, and  *)
(* then the call returns the instance.  Stated as claimed; the code        *)
(* violates it where an exception ends the call (C3).                      *)
(***************************************************************************)
\* The value of the member of a known key does not parse.
FailsToParse(case, value) ==
    IF case.list
    THEN \/ value.kind # "arr"
         \/ \E k \in DOMAIN value.v : Malformed(case.parse_method, value.v[k])
    ELSE LET parsed == Invoke(symbol_table, DeserializeImpl, case.parse_method, value)
         IN  ~(parsed.thrown = "" /\ parsed.error = Null)

C13_Transition ==
    LET r == RoutineOf(DeserializeImpl, routine)
        cls == OurType(symbol_table, r.cls)
        keyValue == node.v[call.index]
        case == r.cases[CHOOSE c \in DOMAIN r.cases : r.cases[c].json_name = keyValue.key]
        required == {a \in DOMAIN cls.arguments :
                        cls.arguments[a].type_annotation.k # "optional"}
    IN  /\ (call.phase = "" /\ pc' = "stepping") =>
              IF node.kind = "obj"
              THEN call'.phase = "ScanningKeys" /\ call'.index = 1
              ELSE call'.phase = "Failed" /\ IsParseError(call'.outcome)
        /\ (call.phase = "ScanningKeys" /\ call' # call) =>
              IF call.index > Len(node.v)
              THEN call' = [call EXCEPT !.phase = "ValidatingRequired"]
              ELSE IF keyValue.key \notin KnownKeys(cls)
              THEN call' = [call EXCEPT
                              !.phase = "Failed",
                              !.outcome = Fail(NewError("Unexpected property: "
                                                        \o keyValue.key))]
              ELSE IF keyValue.key = "modelType" \/ keyValue.value.kind = "null"
              THEN call' = [call EXCEPT !.index = call.index + 1]
              ELSE IF FailsToParse(case, keyValue.value)
              THEN /\ call'.phase = "Failed"
                   /\ IsParseError(call'.outcome)
                   /\ call'.outcome.error[1].segments[1] = NameSegment(keyValue.key)
                   /\ call'.index = call.index
                   /\ call'.slots = call.slots
              ELSE /\ call'.phase = "ScanningKeys"
                   /\ call'.index = call.index + 1
                   /\ call'.slots[case.target] # Null
        /\ (call.phase = "ValidatingRequired" /\ call' # call) =>
              IF \E a \in required : call.slots[a] = Null
              THEN /\ call'.phase = "Failed"
                   /\ IsParseError(call'.outcome)
                   /\ call'.slots = call.slots
              ELSE call' = [call EXCEPT !.phase = "Constructing"]
        /\ (call.phase = "Constructing" /\ call' # call) =>
              /\ call'.phase = "Constructed"
              /\ call'.outcome.thrown = ""
              /\ call'.outcome.error = Null
              /\ call'.outcome.result # Null
        /\ call.phase \in {"Failed", "Constructed"} => call' = call
        /\ (call'.phase = "Constructed" /\ call.phase # "Constructed") =>
              /\ call.phase = "Constructing"
              /\ call.index > Len(node.v)
              /\ \A a \in required : call.slots[a] # Null

C13_ClassParseStateMachine == [][C13_Transition]_vars

(***************************************************************************)
(* C14 (path of an error): the segments of the error a parser returns,     *)
(* read front to back, lead from the root of the document to the node      *)
(* where the parse failed: one name segment per enclosing property and     *)
(* one index segment per enclosing list item, and no segment more.  The    *)
(* parse failed at a node when the routine for it reports the cause        *)
(* itself: a primitive or an enumeration which does not accept the node,   *)
(* a dispatcher which finds no implementer, a class which finds the node   *)
(* not an object, a key unknown or a required property missing, a list     *)
(* which finds no array or a null item.                                    *)
(***************************************************************************)
\* The causes the body of the parser of a class reports itself.
CausesOfClass(cls, n) ==
    IF n.kind # "obj"
    THEN {"Expected a JsonObject, but got " \o GetType(n)}
    ELSE {"Unexpected property: " \o n.v[i].key : i \in DOMAIN n.v}
         \cup {"Required property \"" \o json_property(cls.arguments[a].name)
               \o "\" is missing" : a \in DOMAIN cls.arguments}

RECURSIVE FailsAt(_, _, _, _)
FailsAt(method, n, segments, cause) ==
    LET r == RoutineOf(DeserializeImpl, method)
        dispatched == /\ r.kind = "interface"
                      /\ n.kind = "obj"
                      /\ ModelTypeNode(n.v).kind = "str"
                      /\ \E c \in DOMAIN r.cases : r.cases[c].model_type = ModelTypeNode(n.v).v
        implementer == r.cases[CHOOSE c \in DOMAIN r.cases :
                                  r.cases[c].model_type = ModelTypeNode(n.v).v].method
        name == Head(segments).name
        value == n.v[CHOOSE i \in DOMAIN n.v : n.v[i].key = name].value
        case == r.cases[CHOOSE c \in DOMAIN r.cases : r.cases[c].json_name = name]
    IN  IF dispatched
        THEN FailsAt(implementer, n, segments, cause)
        ELSE IF segments = <<>>
        THEN /\ Invoke(symbol_table, DeserializeImpl, method, n) = Fail(NewError(cause))
             /\ r.kind = "class" => cause \in CausesOfClass(OurType(symbol_table, r.cls), n)
        ELSE /\ r.kind = "class"
             /\ n.kind = "obj"
             /\ Head(segments).segment = "name"
             /\ HasKey(n.v, name)
             /\ \E c \in DOMAIN r.cases : r.cases[c].json_name = name
             /\ IF ~case.list
                THEN FailsAt(case.parse_method, value, Tail(segments), cause)
                ELSE IF value.kind # "arr"
                THEN /\ Len(segments) = 1
                     /\ cause = "Expected a JsonArray, but got " \o GetType(value)
                ELSE /\ Len(segments) >= 2
                     /\ segments[2].segment = "index"
                     /\ segments[2].index + 1 \in DOMAIN value.v
                     /\ IF value.v[segments[2].index + 1].kind = "null"
                        THEN /\ Len(segments) = 2
                             /\ cause = "Expected a non-null item, but got a null"
                        ELSE FailsAt(case.parse_method, value.v[segments[2].index + 1],
                                     Tail(Tail(segments)), cause)

C14_SegmentsLeadToFailure ==
    (pc = "parsed" /\ IsParseError(out)) =>
        FailsAt(routine, node, out.error[1].segments, out.error[1].cause)

\* The radius of the second shape of a drawing is a string: two names and
\* one index lead to it.
C14_Witness ==
    /\ pc = "parsed"
    /\ routine = "DeserializeImplementation.DrawingFrom"
    /\ IsParseError(out)
    /\ out.error[1].segments = <<NameSegment("shapes"), IndexSegment(1), NameSegment("radius")>>

(***************************************************************************)
(* C15 (failures of a dispatcher): a node which is not an object, an       *)
(* object without a discriminator, an object whose discriminator is not a  *)
(* string and an object whose discriminator names no implementer each      *)
(* make the dispatcher of an interface return an error, and the causes of  *)
(* two different kinds differ.  A member whose value is the JSON null is   *)
(* an absent member (System.Text.Json keeps no node for it).               *)
(***************************************************************************)
\* The kind of failure of the dispatcher on a node; "" when it dispatches.
DispatchFailure(interface, n) ==
    IF n.kind # "obj" THEN "not an object"
    ELSE IF ModelTypeNode(n.v) = JNull THEN "no discriminator"
    ELSE IF ModelTypeNode(n.v).kind # "str" THEN "discriminator not a string"
    ELSE IF \A i \in DOMAIN interface.implementers :
               json_model_type(interface.implementers[i]) # ModelTypeNode(n.v).v
    THEN "unknown discriminator"
    ELSE ""

\* Nodes of the four kinds of failure.
Undispatchable ==
    {JNull, JArr(<<>>), JStr("Square"), JObj(<<>>), JObj(<<Member("modelType", JNull)>>),
     JObj(<<Member("modelType", JLong(Int64(9)))>>),
     JObj(<<Member("modelType", JBool(TRUE))>>),
     JObj(<<Member("modelType", JObj(<<>>))>>),
     JObj(<<Member("modelType", JArr(<<>>))>>),
     JObj(<<Member("modelType", JStr("Blob"))>>),
     JObj(<<Member("modelType", JStr(""))>>)}

C15_DispatcherFailuresDistinct ==
    (pc = "parsed" /\ ParsedInterfaces # {}) =>
        \A interface \in ParsedInterfaces :
            DispatchFailure(interface, node) # "" =>
                /\ IsParseError(out)
                /\ \A n \in Undispatchable :
                      /\ DispatchFailure(interface, n) # ""
                      /\ IsParseError(Parse(n))
                      /\ DispatchFailure(interface, n) # DispatchFailure(interface, node)
                         => Parse(n).error[1].cause # out.error[1].cause

\* The discriminator of a circle is replaced by a number.
C15_Witness ==
    /\ pc = "parsed"
    /\ routine = "DeserializeImplementation.IShapeFrom"
    /\ node.kind = "obj"
    /\ HasKey(node.v, "radius")
    /\ ModelTypeNode(node.v).kind = "num"
    /\ IsParseError(out)

(***************************************************************************)
(* C16 (order of the keys and the discriminator): the keys of the object   *)
(* the serializer emits for an instance are the external names of the      *)
(* properties which are set, in the order in which the schema declares     *)
(* the properties; the object has the key "modelType", with the model      *)
(* type of the class as its value, if and only if the class is marked      *)
(* with_model_type.  Stated as claimed, for every class of every schema;   *)
(* where the emitted code does not build (C9) no object is emitted and no  *)
(* key of a property which is set appears.                                 *)
(***************************************************************************)
C16_KeysInPropertyOrder ==
    (pc \in {"serialized", "not built"} /\ json.thrown = "") =>
        LET cls == OurType(symbol_table, that[1].v.cls)
            members == IF json.result = Null THEN <<>> ELSE json.result[1].v
            properties == WithoutKey(members, "modelType")
            set[p \in 0..Len(cls.properties)] ==
                IF p = 0 THEN <<>>
                ELSE set[p - 1] \o (IF that[1].v.props[p] # Null
                                    THEN <<json_property(cls.properties[p].name)>>
                                    ELSE <<>>)
        IN  /\ [i \in DOMAIN properties |-> properties[i].key] = set[Len(cls.properties)]
            /\ HasKey(members, "modelType") <=> cls.with_model_type
            /\ cls.with_model_type =>
                  /\ ModelTypeNode(members) = JStr(json_model_type(cls.name))
                  /\ Len(members) = Len(properties) + 1

(***************************************************************************)
(* C17 (lossy integers): the serializer emits a 64-bit integer unchanged   *)
(* if and only if the conversion of the integer to a double and back       *)
(* gives the same integer; otherwise it raises System.ArgumentException    *)
(* and returns nothing.  Nothing else makes the serializer fail: an        *)
(* instance without such an integer is serialized, whatever its booleans,  *)
(* doubles, strings and byte arrays.  Stated as claimed, for the required  *)
(* and the optional integers of every schema; the integer of an optional   *)
(* property is never emitted, since the code emitted for it does not       *)
(* build (C9).                                                             *)
(***************************************************************************)
C17_LossyLongRaises ==
    pc \in {"serialized", "not built"} =>
        LET cls == OurType(symbol_table, that[1].v.cls)
            props == that[1].v.props
            longs == {p \in DOMAIN cls.properties :
                        /\ beneath_optional(cls.properties[p].type_annotation)
                           = PrimitiveTypeAnnotation("INT")
                        /\ props[p] # Null}
            lossy == {p \in longs : ToDouble(props[p][1].v) # props[p][1].v}
        IN  /\ json.thrown = "System.ArgumentException" <=> lossy # {}
            /\ lossy # {} => json.result = Null
            /\ lossy = {} =>
                  /\ json.thrown = ""
                  /\ json.result # Null
                  /\ \A p \in longs :
                        \E i \in DOMAIN json.result[1].v :
                           json.result[1].v[i]
                           = Member(json_property(cls.properties[p].name),
                                    JLong(props[p][1].v))

(***************************************************************************)
(* C18: every call of the parser of a class on a document and every call   *)
(* of the transformer on an instance comes to its end and returns, and     *)
(* visits each member, each item of a list and each nested instance a      *)
(* bounded number of times: no frame passes the end of its members, its    *)
(* statements or its items, no instance and no node is under visit while   *)
(* a visit of it is under way, and the call never runs out of the stack.   *)
(* Stated as claimed, for every instance graph; the transformer follows    *)
(* every reference with a call of Transform and does not notice an         *)
(* instance which refers back to itself.                                   *)
(***************************************************************************)
C18_Terminates ==
    /\ [](pc = "walking" =>
             \A i \in DOMAIN call.stack :
                /\ call.stack[i].index
                   <= 1 + (IF call.walk = "serialize"
                           THEN Len(RoutineOf(Transformer, call.stack[i].method).stmts)
                           ELSE IF call.stack[i].node.kind = "obj"
                           THEN Len(call.stack[i].node.v)
                           ELSE 0)
                /\ call.stack[i].item <= MaxItems
                /\ \A j \in DOMAIN call.stack :
                      call.stack[i].at = call.stack[j].at => i = j)
    /\ [](pc # "stack overflow")
    /\ (pc = "walking") ~> (pc = "returned")

(***************************************************************************)
(* C19: for every concrete class whose parser is generated, the error of   *)
(* the mismatch is reported once for a constructor argument whose type is  *)
(* neither the type of the property of the same name nor the optional of   *)
(* it, and not at all for any other argument; all of them are among the    *)
(* errors of the one invocation.  A class with such an argument has no     *)
(* parser: its generator returns no code and generate() returns no code.   *)
(* A class without one has its parser in the code which is generated.      *)
(* Stated as claimed; no error is reported when generate() raises (C10).   *)
(***************************************************************************)
C19_MismatchedArgumentsReported ==
    pc \in {"generated", "rejected", "raised"} =>
        \A i \in DOMAIN symbol_table :
            LET cls == symbol_table[i]
                mismatch(a) ==
                    LET arg_type == cls.arguments[a].type_annotation
                        prop_type == PropertyByName(cls, cls.arguments[a].name).type_annotation
                    IN  /\ arg_type # prop_type
                        /\ arg_type # OptionalTypeAnnotation(prop_type)
                error(a) ==
                    Error("Expected type annotation for property '" \o cls.arguments[a].name
                          \o "' and constructor argument '" \o cls.arguments[a].name
                          \o "' of the class '" \o cls.name
                          \o "' to have matching types, but they do not: property type is "
                          \o type_annotation_str(
                                 PropertyByName(cls, cls.arguments[a].name).type_annotation)
                          \o " and argument type is "
                          \o type_annotation_str(cls.arguments[a].type_annotation)
                          \o ". Hence we do not know how to generate the call to the"
                          \o " constructor in the JSON de-serialization.")
            IN  (cls.kind = "ConcreteClass" /\ ~cls.is_implementation_specific) =>
                    /\ \A a \in DOMAIN cls.arguments :
                          Reported(error(a)) = IF mismatch(a) THEN 1 ELSE 0
                    /\ (\E a \in DOMAIN cls.arguments : mismatch(a)) =>
                          /\ _generate_from_method_for_class(symbol_table, cls).code = Null
                          /\ generated.code = Null
                    /\ ((\A a \in DOMAIN cls.arguments : ~mismatch(a))
                            /\ generated.code # Null) =>
                          /\ HasRoutine(DeserializeImpl,
                                        "DeserializeImplementation."
                                        \o class_name(cls.name) \o "From")
                          /\ RoutineOf(DeserializeImpl,
                                       "DeserializeImplementation."
                                       \o class_name(cls.name) \o "From").kind = "class"

(***************************************************************************)
(* C20: the member "modelType" in a document for the parser of a class.    *)
(* For a class which is serialized with the model type the member is       *)
(* skipped: wherever it stands and whatever its value, the outcome is the  *)
(* outcome on the document without it.  For any other class the member is  *)
(* an unknown key: the outcome is the outcome on the document with the     *)
(* unknown key "z" in its place, the cause naming "modelType"; at the      *)
(* front of the document it is the error "Unexpected property: modelType". *)
(***************************************************************************)
C20_ModelTypeKey ==
    (pc = "parsed" /\ node.kind = "obj") =>
        \A cls \in ParsedClasses :
            LET base == WithoutKey(WithoutKey(node.v, "modelType"), "z")
                unexpected(key) == Fail(NewError("Unexpected property: " \o key))
            IN  \A i \in 1..(Len(base) + 1) :
                   \A value \in {JNull, JStr("Circle"), JBool(TRUE)} :
                      LET with_model_type ==
                              Parse(JObj(InsertAt(base, i, Member("modelType", value))))
                          with_unknown ==
                              Parse(JObj(InsertAt(base, i, Member("z", value))))
                      IN  IF cls.with_model_type
                          THEN with_model_type = Parse(JObj(base))
                          ELSE /\ with_model_type =
                                    IF with_unknown = unexpected("z")
                                    THEN unexpected("modelType")
                                    ELSE with_unknown
                               /\ i = 1 => with_model_type = unexpected("modelType")

\* The parser of Point, which is not serialized with the model type, was
\* given a document with the member after the member x, and rejected it.
C20_Witness ==
    /\ pc = "parsed"
    /\ routine = "DeserializeImplementation.PointFrom"
    /\ node.kind = "obj"
    /\ Len(node.v) >= 2
    /\ node.v[Len(node.v)].key = "modelType"
    /\ out = Fail(NewError("Unexpected property: modelType"))

(***************************************************************************)
(* C21: the resolver of the parse method is defined on every atomic        *)
(* annotation of the schema and names                                      *)
(*  - for a primitive its coercion, a different one for each primitive;    *)
(*  - for a constrained primitive the coercion of its constrainee;         *)
(*  - for an enumeration the parser of that enumeration;                   *)
(*  - for a class with an interface the dispatcher of the interface;       *)
(*  - for a class without an interface the parser of the class.            *)
(* Where the code was generated, the method of that name is the routine of *)
(* that kind.                                                              *)
(***************************************************************************)
C21_ResolverTotal ==
    LET resolved(type_annotation) ==
            _parse_method_for_atomic_value(symbol_table, type_annotation)
        emitted(method, kinds) ==
            generated.code # Null =>
                /\ HasRoutine(DeserializeImpl, method)
                /\ RoutineOf(DeserializeImpl, method).kind \in kinds
    IN  /\ \A p \in PrimitiveType :
              LET method == resolved(PrimitiveTypeAnnotation(p))
              IN  /\ HasRoutine(PrimitiveRoutines, method)
                  /\ RoutineOf(PrimitiveRoutines, method).a_type = p
                  /\ emitted(method, {"primitive"})
        /\ \A i \in DOMAIN symbol_table :
              LET our_type == symbol_table[i]
                  method == resolved(OurTypeAnnotation(our_type.name))
              IN  CASE our_type.kind = "Enumeration" ->
                         /\ method = "DeserializeImplementation."
                                     \o json_model_type(our_type.name) \o "From"
                         /\ emitted(method, {"enumeration"})
                         /\ generated.code # Null =>
                               RoutineOf(DeserializeImpl, method).enumeration = our_type.name
                    [] our_type.kind = "ConstrainedPrimitive" ->
                         method = resolved(PrimitiveTypeAnnotation(our_type.constrainee))
                    [] our_type.interface # Null ->
                         /\ method = "DeserializeImplementation.I"
                                     \o json_model_type(our_type.interface[1].name) \o "From"
                         /\ emitted(method, {"interface"})
                    [] OTHER ->
                         /\ method = "DeserializeImplementation."
                                     \o json_model_type(our_type.name) \o "From"
                         /\ emitted(method, {"class", "snippet"})
                         /\ (generated.code # Null
                                /\ RoutineOf(DeserializeImpl, method).kind = "class") =>
                               RoutineOf(DeserializeImpl, method).cls = our_type.name

\* The code was generated for the schema with all the kinds of annotations,
\* and the cases of the parser of Drawing call the dispatcher of Shape and
\* the parser of the enumeration Color.
C21_Witness ==
    /\ pc = "generated"
    /\ symbol_table = MetaModel
    /\ LET r == RoutineOf(DeserializeImpl, "DeserializeImplementation.DrawingFrom")
       IN  /\ r.cases[1].parse_method = "DeserializeImplementation.ColorFrom"
           /\ r.cases[2].parse_method = "DeserializeImplementation.IShapeFrom"
           /\ r.cases[3].parse_method = "DeserializeImplementation.IShapeFrom"
    /\ RoutineOf(DeserializeImpl, "DeserializeImplementation.ItemFrom").cases[4].parse_method
          = "DeserializeImplementation.StringFrom"

(***************************************************************************)
(* C26: for every concrete class whose codec is generated, the keys which  *)
(* the parser of the class accepts are the keys which the transformer of   *)
(* the class can write.  A key is accepted when the parser does not answer *)
(* a document with that key alone by "Unexpected property"; a key can be   *)
(* written when the serialization of some instance of the class has it.    *)
(* The external names of the arguments are those of the properties, and    *)
(* the labels of the cases of the emitted parser are the keys of the       *)
(* statements of the emitted transformer, also where the emitted code is   *)
(* not built, so that no parser accepts and no serializer writes a key.    *)
(***************************************************************************)
\* The keys a codec of the class may know: the names, the external names
\* and the key of the model type, next to a key which no schema has.
CandidateKeys(cls) ==
    {"modelType", "z"}
    \cup {cls.properties[p].name : p \in DOMAIN cls.properties}
    \cup {json_property(cls.properties[p].name) : p \in DOMAIN cls.properties}
    \cup {cls.arguments[a].name : a \in DOMAIN cls.arguments}
    \cup {json_property(cls.arguments[a].name) : a \in DOMAIN cls.arguments}

AcceptedKeys(cls) ==
    {key \in CandidateKeys(cls) :
        Invoke(symbol_table, DeserializeImpl,
               "DeserializeImplementation." \o class_name(cls.name) \o "From",
               JObj(<<Member(key, JNull)>>))
        # Fail(NewError("Unexpected property: " \o key))}

EmittedKeys(cls) ==
    UNION {LET serialized == Transform(symbol_table, generated.code[1].transformer, v)
           IN  IF serialized.thrown # "" THEN {}
               ELSE {serialized.result[1].v[m].key : m \in DOMAIN serialized.result[1].v} :
           v \in InstancesOf(symbol_table, cls, FALSE)}

\* The labels of the cases of the emitted parser of the class.
CaseKeys(cls) ==
    LET r == RoutineOf(DeserializeImpl,
                       "DeserializeImplementation." \o class_name(cls.name) \o "From")
    IN  {r.cases[i].json_name : i \in DOMAIN r.cases}
        \cup (IF r.model_type_case THEN {"modelType"} ELSE {})

\* The keys of the statements of the emitted transformer of the class.
StatementKeys(cls) ==
    LET r == RoutineOf(generated.code[1].transformer, "Transform" \o class_name(cls.name))
    IN  {r.stmts[p].json_name : p \in DOMAIN r.stmts}
        \cup (IF r.model_type # Null THEN {"modelType"} ELSE {})

C26_SameKeys ==
    pc = "generated" =>
        \A c \in GeneratedClasses(symbol_table) :
            LET cls == OurType(symbol_table, c)
            IN  /\ Built =>
                      /\ AcceptedKeys(cls) = EmittedKeys(cls)
                      /\ AcceptedKeys(cls) = CaseKeys(cls)
                      /\ "modelType" \in AcceptedKeys(cls) <=> cls.with_model_type
                /\ CaseKeys(cls) = StatementKeys(cls)
                /\ {json_property(cls.arguments[a].name) : a \in DOMAIN cls.arguments}
                   = {json_property(cls.properties[p].name) : p \in DOMAIN cls.properties}
                /\ "modelType" \in CaseKeys(cls) <=> cls.with_model_type

\* The codecs of Drawing, with external names which differ from the names,
\* and of Circle, serialized with the model type.
C26_Witness ==
    /\ pc = "generated"
    /\ symbol_table = MetaModel
    /\ AcceptedKeys(DrawingClass) = {"shapes", "mainShape", "color"}
    /\ EmittedKeys(DrawingClass) = {"shapes", "mainShape", "color"}
    /\ EmittedKeys(CircleClass) = {"radius", "modelType"}

(***************************************************************************)
(* C27: in the code which is generated every method which a case of the    *)
(* parser of a class or a case of a dispatcher calls is a method of        *)
(* DeserializeImplementation, and of the kind the call expects: a case of  *)
(* a dispatcher calls the parser of a class, generated or from a snippet.  *)
(***************************************************************************)
C27_CalledRoutinesEmitted ==
    generated.code # Null =>
        \A i \in DOMAIN DeserializeImpl :
            LET r == DeserializeImpl[i]
            IN  /\ r.kind = "class" =>
                      \A c \in DOMAIN r.cases : HasRoutine(DeserializeImpl, r.cases[c].parse_method)
                /\ r.kind = "interface" =>
                      \A c \in DOMAIN r.cases :
                          /\ HasRoutine(DeserializeImpl, r.cases[c].method)
                          /\ RoutineOf(DeserializeImpl, r.cases[c].method).kind
                                \in {"class", "snippet"}
                /\ Cardinality({j \in DOMAIN DeserializeImpl :
                                   DeserializeImpl[j].name = r.name}) = 1

\* The parser of Drawing calls the dispatcher of Shape, which calls the
\* parsers of Circle and of Square; the parser of Custom is a snippet.
C27_Witness ==
    /\ pc = "generated"
    /\ symbol_table = MetaModel
    /\ \E c \in DOMAIN RoutineOf(DeserializeImpl, "DeserializeImplementation.DrawingFrom").cases :
          RoutineOf(DeserializeImpl, "DeserializeImplementation.DrawingFrom").cases[c].parse_method
             = "DeserializeImplementation.IShapeFrom"
    /\ {RoutineOf(DeserializeImpl, "DeserializeImplementation.IShapeFrom").cases[c].method :
           c \in DOMAIN RoutineOf(DeserializeImpl, "DeserializeImplementation.IShapeFrom").cases}
          = {"DeserializeImplementation.CircleFrom", "DeserializeImplementation.SquareFrom"}
    /\ RoutineOf(DeserializeImpl, "DeserializeImplementation.CustomFrom").kind = "snippet"

(***************************************************************************)
(* C28: a document for the parser of a class which has no invalid and no   *)
(* unknown key and omits several required properties of the class yields   *)
(* one error, and the error names the omitted required property which      *)
(* comes first among the arguments of the constructor, in whatever order   *)
(* the remaining keys stand.  Stated as claimed; the code checks only the  *)
(* properties whose constructor argument is not optional, so it names      *)
(* another property for Triple (C3).                                       *)
(***************************************************************************)
RECURSIVE Reverse(_)
Reverse(q) == IF q = <<>> THEN <<>> ELSE Reverse(Tail(q)) \o <<Head(q)>>

RECURSIVE WithoutKeys(_, _)
WithoutKeys(members, keys) ==
    IF members = <<>> THEN <<>>
    ELSE (IF Head(members).key \in keys THEN <<>> ELSE <<Head(members)>>)
         \o WithoutKeys(Tail(members), keys)

\* The names of the properties of a class which are not optional.
RequiredProperties(cls) ==
    {cls.properties[i].name :
        i \in {j \in DOMAIN cls.properties :
                 cls.properties[j].type_annotation.k # "optional"}}

\* The names of the arguments of the constructor which are not optional.
RequiredArguments(cls) ==
    {cls.arguments[i].name :
        i \in {j \in DOMAIN cls.arguments :
                 cls.arguments[j].type_annotation.k # "optional"}}

\* The name among the given ones which comes first among the arguments.
FirstArgument(cls, names) ==
    cls.arguments[CHOOSE i \in DOMAIN cls.arguments :
                    /\ cls.arguments[i].name \in names
                    /\ \A j \in DOMAIN cls.arguments :
                          cls.arguments[j].name \in names => i <= j].name

\* The outcomes on the valid document of the state without the keys of the
\* omitted properties are the error naming the first of them.
FirstMissingReported(cls, required) ==
    \A omitted \in {s \in SUBSET required : Cardinality(s) >= 2} :
        LET rest == WithoutKeys(node.v, {json_property(p) : p \in omitted})
            expected ==
                Fail(NewError("Required property \""
                              \o json_property(FirstArgument(cls, omitted))
                              \o "\" is missing"))
        IN  /\ Parse(JObj(rest)) = expected
            /\ Parse(JObj(Reverse(rest))) = expected

C28_FirstMissingRequired ==
    (pc = "parsed" /\ node.kind = "obj" /\ json.result = Some(node)) =>
        \A cls \in ParsedClasses : FirstMissingReported(cls, RequiredProperties(cls))

(***************************************************************************)
(* C29: the parser of a class which is serialized with the model type      *)
(* never reads the value of the member "modelType": on every document the  *)
(* outcome stays the same when the value is replaced by the model type of  *)
(* another class, by an unknown string, by a value which is no string or   *)
(* by null, and when the member is removed.  The dispatcher of an          *)
(* interface does read it: a document it parses is rejected once the value *)
(* is no model type of an implementer or the member is removed.            *)
(***************************************************************************)
\* The members with the value of every member of the key replaced.
WithValue(members, key, value) ==
    [i \in DOMAIN members |->
        IF members[i].key = key THEN Member(key, value) ELSE members[i]]

\* The values put in the place of the discriminator.
OtherModelTypes ==
    {JStr(json_model_type(c)) : c \in GeneratedClasses(symbol_table)}
    \cup {JStr("Unknown"), JStr(""), JBool(TRUE), JNull, JArr(<<>>), JObj(<<>>)}

C29_ModelTypeValueNotRead ==
    (pc = "parsed" /\ node.kind = "obj") =>
        /\ \A cls \in {c \in ParsedClasses : c.with_model_type} :
              /\ Parse(node) = out
              /\ Parse(JObj(WithoutKey(node.v, "modelType"))) = out
              /\ \A value \in OtherModelTypes :
                    Parse(JObj(WithValue(node.v, "modelType", value))) = out
        /\ \A interface \in ParsedInterfaces :
              out.result # Null =>
                  /\ IsParseError(Parse(JObj(WithoutKey(node.v, "modelType"))))
                  /\ \A value \in {JStr("Unknown"), JStr(""), JBool(TRUE), JNull,
                                   JArr(<<>>), JObj(<<>>)} :
                        IsParseError(Parse(JObj(WithValue(node.v, "modelType", value))))

\* The parser of Circle returned the instance for a document whose member
\* modelType holds the model type of another class.
C29_Witness ==
    /\ pc = "parsed"
    /\ routine = "DeserializeImplementation.CircleFrom"
    /\ node.kind = "obj"
    /\ HasKey(node.v, "modelType")
    /\ out.result # Null
    /\ Parse(JObj(WithValue(node.v, "modelType", JStr("Square")))) = out
    /\ Parse(JObj(WithValue(node.v, "modelType", JNull))) = out
    /\ "Square" \in {json_model_type(c) : c \in GeneratedClasses(symbol_table)}

(***************************************************************************)
(* The Go libraries: aas_core_codegen/golang/naming.py and                 *)
(* aas_core_codegen/golang/common.py.                                      *)
(*                                                                         *)
(* An identifier and a Go type are sequences of characters, each a string  *)
(* of one character.  The identifiers of the model are written with the    *)
(* letters a and B, the digit 1 and the underscore, which meet every case  *)
(* the naming functions tell apart.  A text given to string_literal is a   *)
(* sequence of code points, as not every character which is escaped can be *)
(* written in a string.                                                    *)
(***************************************************************************)
\* The longest identifier given to a naming function.
MaxIdentifier == 3

LowerCase == {"a", "b"}

UpperCase == {"A", "B"}

Digits == {"1"}

\* str.isupper() of one character
isupper(c) == c \in UpperCase

\* str.upper() and str.lower() of one character
upper(c) == CASE c = "a" -> "A" [] c = "b" -> "B" [] OTHER -> c

lower(c) == CASE c = "A" -> "a" [] c = "B" -> "b" [] OTHER -> c

\* str.lower(): every character in lower case
str_lower(text) == [i \in DOMAIN text |-> lower(text[i])]

\* str.capitalize(): the first character in upper case, the rest in lower
\* case
str_capitalize(text) ==
    [i \in DOMAIN text |-> IF i = 1 THEN upper(text[i]) ELSE lower(text[i])]

\* str.split("_"): the parts between the underscores, the empty ones too
RECURSIVE str_split(_, _)
str_split(text, part) ==
    IF text = <<>> THEN <<part>>
    ELSE IF Head(text) = "_"
    THEN <<part>> \o str_split(Tail(text), <<>>)
    ELSE str_split(Tail(text), Append(part, Head(text)))

\* What a function of the libraries returns, or the exception it raises.
Returns(result) == [result |-> Some(result), thrown |-> ""]

Raises(exception) == [result |-> Null, thrown |-> exception]

\* naming._capitalize_or_leave_abbreviation, with its two preconditions
_capitalize_or_leave_abbreviation(identifier_part) ==
    IF Len(identifier_part) = 0 \/ \E i \in DOMAIN identifier_part : identifier_part[i] = "_"
    THEN Raises("icontract.ViolationError")
    ELSE IF isupper(identifier_part[1])
    THEN Returns(identifier_part)
    ELSE Returns(str_capitalize(identifier_part))

\* The parts of a list, each capitalized, joined; the first exception which
\* a part raises ends the function.
RECURSIVE JoinCapitalized(_, _)
JoinCapitalized(parts, joined) ==
    IF parts = <<>> THEN Returns(joined)
    ELSE LET cased == _capitalize_or_leave_abbreviation(Head(parts))
         IN  IF cased.thrown # "" THEN cased
             ELSE JoinCapitalized(Tail(parts), joined \o cased.result[1])

\* common.Identifier(value), with its precondition IDENTIFIER_RE.fullmatch:
\* a letter or an underscore, then letters, digits and underscores.
Identifier(value) ==
    IF /\ value # <<>>
       /\ value[1] \in LowerCase \cup UpperCase \cup {"_"}
       /\ \A i \in DOMAIN value : value[i] \in LowerCase \cup UpperCase \cup Digits \cup {"_"}
    THEN Returns(value)
    ELSE Raises("icontract.ViolationError")

\* Identifier(...) of what a function returned, or the exception it raised.
IdentifierOf(outcome) ==
    IF outcome.thrown # "" THEN outcome ELSE Identifier(outcome.result[1])

\* naming._capital_camel_case
_capital_camel_case(identifier) ==
    IdentifierOf(JoinCapitalized(SelectSeq(str_split(identifier, <<>>), LAMBDA part : Len(part) > 0), <<>>))

\* naming._lower_camel_case
_lower_camel_case(identifier) ==
    LET parts == str_split(identifier, <<>>)
    IN  IdentifierOf(JoinCapitalized(Tail(parts), str_lower(Head(parts))))

\* golang.naming.interface_name, enum_name, class_name, property_name,
\* method_name
golang_interface_name(identifier) == _capital_camel_case(identifier)

golang_enum_name(identifier) == _capital_camel_case(identifier)

golang_class_name(identifier) == _capital_camel_case(identifier)

golang_property_name(identifier) == _capital_camel_case(identifier)

golang_method_name(identifier) == _capital_camel_case(identifier)

\* golang.naming.enum_literal_name
golang_enum_literal_name(enumeration_name, literal_name) ==
    LET prefix == _capital_camel_case(enumeration_name)
        suffix == _capital_camel_case(literal_name)
    IN  IF prefix.thrown # "" THEN prefix
        ELSE IF suffix.thrown # "" THEN suffix
        ELSE Returns(prefix.result[1] \o suffix.result[1])

\* golang.naming.private_property_name, private_method_name, argument_name,
\* variable_name
golang_private_property_name(identifier) == _lower_camel_case(identifier)

golang_private_method_name(identifier) == _lower_camel_case(identifier)

golang_argument_name(identifier) == _lower_camel_case(identifier)

golang_variable_name(identifier) == _lower_camel_case(identifier)

\* common.PRIMITIVE_TYPE_MAP
PRIMITIVE_TYPE_MAP(a_type) ==
    CASE a_type = "BOOL" -> <<"b", "o", "o", "l">>
      [] a_type = "INT" -> <<"i", "n", "t", "6", "4">>
      [] a_type = "FLOAT" -> <<"f", "l", "o", "a", "t", "6", "4">>
      [] a_type = "STR" -> <<"s", "t", "r", "i", "n", "g">>
      [] a_type = "BYTEARRAY" -> <<"[", "]", "b", "y", "t", "e">>

\* common.generate_type; type_annotation.our_type is the type itself
RECURSIVE generate_type(_)
generate_type(type_annotation) ==
    CASE type_annotation.k = "primitive" ->
            Returns(PRIMITIVE_TYPE_MAP(type_annotation.a_type))
      [] type_annotation.k = "our" ->
            LET our_type == type_annotation.our_type
            IN  IF our_type.kind = "Enumeration"
                THEN golang_enum_name(our_type.name)
                ELSE IF our_type.kind = "ConstrainedPrimitive"
                THEN Returns(PRIMITIVE_TYPE_MAP(our_type.constrainee))
                ELSE IF our_type.interface # Null
                THEN golang_interface_name(our_type.name)
                ELSE LET name == golang_class_name(our_type.name)
                     IN  IF name.thrown # "" THEN name
                         ELSE Returns(<<"*">> \o name.result[1])
      [] type_annotation.k = "list" ->
            LET item_type == generate_type(type_annotation.items)
            IN  IF item_type.thrown # "" THEN item_type
                ELSE Returns(<<"[", "]">> \o item_type.result[1])
      [] type_annotation.k = "optional" ->
            LET value == generate_type(type_annotation.value)
            IN  IF value.thrown # "" THEN value
                ELSE IF type_annotation.value.k = "primitive"
                THEN Returns(<<"*">> \o value.result[1])
                ELSE value

\* The code points of the characters which a Go string literal escapes, and
\* of the letters written after the backslash.
Bell == 7

Backspace == 8

Tab == 9

LineFeed == 10

VerticalTab == 11

FormFeed == 12

CarriageReturn == 13

DoubleQuote == 34

Backslash == 92

LetterA == 97

LetterB == 98

LetterF == 102

LetterN == 110

LetterR == 114

LetterT == 116

LetterV == 118

\* The branch of string_literal for one character.
EscapedCharacter(character) ==
    CASE character = Bell -> <<Backslash, LetterA>>
      [] character = Backspace -> <<Backslash, LetterB>>
      [] character = FormFeed -> <<Backslash, LetterF>>
      [] character = LineFeed -> <<Backslash, LetterN>>
      [] character = CarriageReturn -> <<Backslash, LetterR>>
      [] character = Tab -> <<Backslash, LetterT>>
      [] character = VerticalTab -> <<Backslash, LetterV>>
      [] character = DoubleQuote -> <<Backslash, DoubleQuote>>
      [] character = Backslash -> <<Backslash, Backslash>>
      [] OTHER -> <<character>>

\* common.string_literal, with its two postconditions
string_literal(text) ==
    LET result == <<DoubleQuote>>
                  \o Concat([i \in DOMAIN text |-> EscapedCharacter(text[i])])
                  \o <<DoubleQuote>>
    IN  IF Head(result) = DoubleQuote /\ result[Len(result)] = DoubleQuote
        THEN Returns(result)
        ELSE Raises("icontract.ViolationError")

\* needs_escaping which does not know the vertical tab.
needs_escaping_WithoutVerticalTab(text) ==
    Returns(\E i \in DOMAIN text :
                text[i] \in {Bell, Backspace, FormFeed, LineFeed, CarriageReturn, Tab,
                             DoubleQuote, Backslash})

\* common.needs_escaping
needs_escaping(text) ==
    Returns(\E i \in DOMAIN text :
                text[i] \in {Bell, Backspace, FormFeed, LineFeed, CarriageReturn, Tab,
                             VerticalTab, DoubleQuote, Backslash})

(***************************************************************************)
(* The inputs of the functions of the Go libraries.                        *)
(***************************************************************************)
\* The longest text given to string_literal and needs_escaping.
MaxText == 2

\* The deepest nesting of lists in a type annotation given to generate_type.
MaxNesting == 1

IdentifierCharacters == {"a", "B", "1", "_"}

\* The parts of identifiers: not empty and without an underscore.
IdentifierParts ==
    {part \in SeqsUpTo(IdentifierCharacters \ {"_"}, MaxIdentifier) : part # <<>>}

\* common.IDENTIFIER_RE: a letter or an underscore, then letters, digits
\* and underscores.
Identifiers ==
    {identifier \in SeqsUpTo(IdentifierCharacters, MaxIdentifier) :
        identifier # <<>> /\ identifier[1] \notin Digits}

\* The characters of the texts: the escaped ones and two plain letters.
TextCharacters ==
    {Bell, Backspace, Tab, LineFeed, VerticalTab, FormFeed, CarriageReturn,
     DoubleQuote, Backslash, LetterA, LetterN}

Texts == SeqsUpTo(TextCharacters, MaxText)

\* The types of a schema: an enumeration, the constrained primitives, a class
\* without descendants, and a concrete and an abstract class with an
\* interface.
GoOurTypes ==
    UNION {{Enumeration(name, <<>>),
            ConcreteClass(name, <<>>, <<>>, Null, FALSE, FALSE),
            ConcreteClass(name, <<>>, <<>>, Some(Interface(name, <<name>>)), TRUE, FALSE),
            AbstractClass(name, <<>>, <<>>, Some(Interface(name, <<>>)), TRUE)}
           \cup {ConstrainedPrimitive(name, constrainee) : constrainee \in PrimitiveType} :
           name \in {<<"a">>, <<"B", "_", "a">>}}

\* The type annotations which are not optional, with lists nested up to a
\* depth.
RECURSIVE NonOptionalTypeAnnotations(_)
NonOptionalTypeAnnotations(nesting) ==
    {PrimitiveTypeAnnotation(a_type) : a_type \in PrimitiveType}
    \cup {OurTypeAnnotation(our_type) : our_type \in GoOurTypes}
    \cup (IF nesting = 0 THEN {}
          ELSE {ListTypeAnnotation(items) :
                   items \in NonOptionalTypeAnnotations(nesting - 1)})

GoTypeAnnotations ==
    NonOptionalTypeAnnotations(MaxNesting)
    \cup {OptionalTypeAnnotation(value) : value \in NonOptionalTypeAnnotations(MaxNesting)}

Given(what, value) == [what |-> what, value |-> value]

\* The inputs, one set for each kind of input.
GoInputs(what) ==
    CASE what = "identifier_part" -> {Given(what, part) : part \in IdentifierParts}
      [] what = "identifier" -> {Given(what, identifier) : identifier \in Identifiers}
      [] what = "text" -> {Given(what, text) : text \in Texts}
      [] what = "type_annotation" ->
            {Given(what, type_annotation) : type_annotation \in GoTypeAnnotations}

(***************************************************************************)
(* The calls of the functions of the Go libraries: one input is given, and *)
(* every function which takes it may be called on it.                      *)
(***************************************************************************)
GoInit ==
    /\ symbol_table = <<>>
    /\ spec_impls = {}
    /\ generated = [code |-> Null, errors |-> Null, thrown |-> ""]
    /\ runtime = FirstRuntime
    /\ routine = ""
    /\ node = JNull
    /\ that = Null
    /\ json = [result |-> Null, thrown |-> ""]
    /\ out = NotRun
    /\ facade = NotCalled
    /\ call = Idle
    /\ pc = "library"
    /\ \E what \in {"identifier_part", "identifier", "text", "type_annotation"} :
          given \in GoInputs(what)
    /\ yielded = NothingYielded

\* The call of a function on the input ends with what it returns or raises.
Yield(function, outcome) ==
    /\ pc = "library"
    /\ yielded' = [function |-> function, result |-> outcome.result,
                   thrown |-> outcome.thrown]
    /\ UNCHANGED <<runtime, given, symbol_table, spec_impls, generated, routine, node, that, json,
                   out, facade, call, pc>>

CapitalizeOrLeaveAbbreviation ==
    /\ given.what = "identifier_part"
    /\ Yield("_capitalize_or_leave_abbreviation",
             _capitalize_or_leave_abbreviation(given.value))

InterfaceName ==
    /\ given.what = "identifier"
    /\ Yield("interface_name", golang_interface_name(given.value))

EnumName ==
    /\ given.what = "identifier"
    /\ Yield("enum_name", golang_enum_name(given.value))

EnumLiteralName ==
    /\ given.what = "identifier"
    /\ \E literal_name \in Identifiers :
          Yield("enum_literal_name", golang_enum_literal_name(given.value, literal_name))

ClassName ==
    /\ given.what = "identifier"
    /\ Yield("class_name", golang_class_name(given.value))

PropertyName ==
    /\ given.what = "identifier"
    /\ Yield("property_name", golang_property_name(given.value))

PrivatePropertyName ==
    /\ given.what = "identifier"
    /\ Yield("private_property_name", golang_private_property_name(given.value))

PrivateMethodName ==
    /\ given.what = "identifier"
    /\ Yield("private_method_name", golang_private_method_name(given.value))

MethodName ==
    /\ given.what = "identifier"
    /\ Yield("method_name", golang_method_name(given.value))

ArgumentName ==
    /\ given.what = "identifier"
    /\ Yield("argument_name", golang_argument_name(given.value))

VariableName ==
    /\ given.what = "identifier"
    /\ Yield("variable_name", golang_variable_name(given.value))

GenerateType ==
    /\ given.what = "type_annotation"
    /\ Yield("generate_type", generate_type(given.value))

StringLiteral ==
    /\ given.what = "text"
    /\ Yield("string_literal", string_literal(given.value))

NeedsEscaping ==
    /\ given.what = "text"
    /\ Yield("needs_escaping", needs_escaping(given.value))

GoNext ==
    \/ CapitalizeOrLeaveAbbreviation
    \/ InterfaceName
    \/ EnumName
    \/ EnumLiteralName
    \/ ClassName
    \/ PropertyName
    \/ PrivatePropertyName
    \/ PrivateMethodName
    \/ MethodName
    \/ ArgumentName
    \/ VariableName
    \/ GenerateType
    \/ StringLiteral
    \/ NeedsEscaping

GoSpec == GoInit /\ [][GoNext]_vars

(***************************************************************************)
(* C23: _capitalize_or_leave_abbreviation returns a part which starts with *)
(* a capital letter or with a digit as it is, and any other part with its  *)
(* first letter in upper case and the remaining characters unchanged.      *)
(* Stated as claimed; the code lowers the remaining characters             *)
(* (str.capitalize), also those of a part which starts with a digit.       *)
(***************************************************************************)
C23_CapitalizeOrLeave ==
    yielded.function = "_capitalize_or_leave_abbreviation" =>
        LET part == given.value
        IN  /\ yielded.thrown = ""
            /\ yielded.result =
                  Some(IF part[1] \in UpperCase \cup Digits
                       THEN part
                       ELSE <<upper(part[1])>> \o Tail(part))

(***************************************************************************)
(* C22: every naming function without a prefix which says otherwise        *)
(* (interface_name, enum_name, enum_literal_name, class_name,               *)
(* property_name, method_name, argument_name, variable_name) returns, for  *)
(* every identifier, a name which starts with a capital letter.  Stated as *)
(* claimed; argument_name and variable_name return lower camel case, and   *)
(* the camel case of an identifier such as _1 is no identifier, so that    *)
(* the function raises.                                                    *)
(***************************************************************************)
PublicNamingFunctions ==
    {"interface_name", "enum_name", "enum_literal_name", "class_name",
     "property_name", "method_name", "argument_name", "variable_name"}

C22_PublicNamesCapitalized ==
    yielded.function \in PublicNamingFunctions =>
        /\ yielded.thrown = ""
        /\ yielded.result # Null
        /\ yielded.result[1] # <<>>
        /\ yielded.result[1][1] \in UpperCase

(***************************************************************************)
(* C24: generate_type of an optional annotation is "*" and the type of the *)
(* value when the value is primitive, and the type of the value unchanged  *)
(* otherwise; in the second case the type of the value is a pointer type   *)
(* (it has the value nil), so that the absent value can be told from every *)
(* present one.  Stated as claimed; the type of an enumeration is its name *)
(* and the type of a constrained primitive is the primitive type, which    *)
(* are no pointer types (only []byte is).                                  *)
(***************************************************************************)
\* The Go type of the annotation has the value nil: a pointer, a slice, or
\* the interface of a class.
IsPointerType(type_annotation, type) ==
    \/ (type # <<>> /\ Head(type) = "*")
    \/ (Len(type) >= 2 /\ SubSeq(type, 1, 2) = <<"[", "]">>)
    \/ /\ type_annotation.k = "our"
       /\ type_annotation.our_type.kind \in {"ConcreteClass", "AbstractClass"}
       /\ type_annotation.our_type.interface # Null

C24_OptionalIsPointer ==
    (yielded.function = "generate_type" /\ given.value.k = "optional") =>
        LET value == generate_type(given.value.value)
        IN  /\ yielded.thrown = ""
            /\ value.thrown = ""
            /\ IF given.value.value.k = "primitive"
               THEN yielded.result = Some(<<"*">> \o value.result[1])
               ELSE /\ yielded.result = value.result
                    /\ IsPointerType(given.value.value, value.result[1])

(***************************************************************************)
(* C30: string_literal of a text starts and ends with a double quote, and  *)
(* needs_escaping of the text is false exactly when string_literal is the  *)
(* text between two double quotes, unchanged.                              *)
(***************************************************************************)
Quoted(text) == <<DoubleQuote>> \o text \o <<DoubleQuote>>

C30_EscapingAgrees ==
    /\ yielded.function = "string_literal" =>
          /\ yielded.thrown = ""
          /\ Len(yielded.result[1]) >= 2
          /\ Head(yielded.result[1]) = DoubleQuote
          /\ yielded.result[1][Len(yielded.result[1])] = DoubleQuote
          /\ needs_escaping(given.value) = Returns(FALSE)
                <=> yielded.result[1] = Quoted(given.value)
    /\ yielded.function = "needs_escaping" =>
          /\ yielded.thrown = ""
          /\ yielded.result \in {Some(TRUE), Some(FALSE)}
          /\ yielded.result = Some(FALSE)
                <=> string_literal(given.value) = Returns(Quoted(given.value))

\* needs_escaping returned true for the text of a vertical tab and the
\* letter n, whose literal is longer than the text between the quotes.
C30_Witness ==
    /\ yielded.function = "needs_escaping"
    /\ given.value = <<VerticalTab, LetterN>>
    /\ yielded.result = Some(TRUE)
    /\ string_literal(given.value) =
          Returns(<<DoubleQuote, Backslash, LetterV, LetterN, DoubleQuote>>)

(***************************************************************************)
(* The documentation comments of C#: aas_core_codegen/csharp/description.py *)
(*                                                                         *)
(* A text is a sequence of tokens: the token "\n" is the new line, every   *)
(* other token is a piece of text without a new line.  The concatenation   *)
(* of texts is the concatenation of the sequences, and no token is empty.  *)
(***************************************************************************)
NewLine == "\n"

\* xml.sax.saxutils.escape
escape(text) ==
    [i \in DOMAIN text |->
        CASE text[i] = "&" -> "&amp;"
          [] text[i] = "<" -> "&lt;"
          [] text[i] = ">" -> "&gt;"
          [] OTHER -> text[i]]

\* xml.sax.saxutils.quoteattr of a name
quoteattr(name) == "\"" \o name \o "\""

\* csharp.common.INDENT
I == "    "

\* separator.join(parts)
RECURSIVE str_join(_, _)
str_join(separator, parts) ==
    IF parts = <<>> THEN <<>>
    ELSE IF Len(parts) = 1 THEN Head(parts)
    ELSE Head(parts) \o separator \o str_join(separator, Tail(parts))

\* The pieces of a text between its new lines, the empty ones too.
LinesBetween(text) ==
    LET ends == <<0>>
                \o SelectSeq([i \in DOMAIN text |-> i], LAMBDA i : text[i] = NewLine)
                \o <<Len(text) + 1>>
    IN  [k \in 1..(Len(ends) - 1) |-> SubSeq(text, ends[k] + 1, ends[k + 1] - 1)]

\* str.splitlines(): the lines without their ends; the end of the last line
\* starts no further line.
splitlines(text) ==
    LET lines == LinesBetween(text)
    IN  IF lines[Len(lines)] = <<>> THEN SubSeq(lines, 1, Len(lines) - 1) ELSE lines

\* textwrap.indent: the prefix before every line which is not blank
indent(text, prefix) ==
    LET lines == LinesBetween(text)
    IN  str_join(<<NewLine>>,
                 [i \in DOMAIN lines |->
                     IF \A j \in DOMAIN lines[i] : lines[i][j] \in {" ", I}
                     THEN lines[i]
                     ELSE <<prefix>> \o lines[i]])

\* csharp_naming.property_name, enum_literal_name and argument_name on the
\* names of the references below.
csharp_property_name(name) ==
    CASE name = "some_flag" -> "SomeFlag" [] name = "title" -> "Title" [] OTHER -> name

csharp_enum_literal_name(name) ==
    CASE name = "dark_red" -> "DarkRed" [] name = "red" -> "Red" [] OTHER -> name

csharp_argument_name(name) ==
    CASE name = "some_flag" -> "someFlag" [] OTHER -> name

\* What a method of the renderer returns: the text or the error messages.
Rendered(text) == [text |-> Some(text), errors |-> Null]

Unrendered(errors) == [text |-> Null, errors |-> Some(errors)]

\* _ElementRenderer.transform_text
transform_text(element) == Rendered(escape(element.text))

\* _ElementRenderer.transform_reference_to_our_type_in_doc
transform_reference_to_our_type_in_doc(element) ==
    LET our_type == element.target
        name == CASE our_type.kind = "Enumeration" -> enum_name(our_type.name)
                  [] our_type.kind = "ConstrainedPrimitive" -> class_name(our_type.name)
                  [] our_type.kind = "AbstractClass" -> interface_name(our_type.name)
                  [] our_type.kind = "ConcreteClass" -> class_name(our_type.name)
    IN  IF our_type.kind = "_PlaceholderOurType"
        THEN Unrendered(<<"Unexpected placeholder for our type: " \o our_type.name
                          \o "; this is a bug">>)
        ELSE Rendered(<<"<see cref=" \o quoteattr("Aas." \o name) \o " />">>)

\* _ElementRenderer.transform_reference_to_attribute_in_doc
transform_reference_to_attribute_in_doc(element) ==
    LET reference == element.target
        cref == CASE reference.kind = "ReferenceToProperty" ->
                        (IF reference.cls = "AbstractClass"
                         THEN interface_name(reference.name)
                         ELSE class_name(reference.name))
                        \o "." \o csharp_property_name(reference.member)
                  [] reference.kind = "ReferenceToEnumerationLiteral" ->
                        enum_name(reference.name) \o "."
                        \o csharp_enum_literal_name(reference.member)
    IN  IF reference.kind = "_PlaceholderReferenceToAttribute"
        THEN Unrendered(<<"Unexpected placeholder for the attribute reference: "
                          \o reference.name \o "; this is a bug">>)
        ELSE Rendered(<<"<see cref=" \o quoteattr("Aas." \o cref) \o " />">>)

\* _ElementRenderer.transform_reference_to_argument_in_doc
transform_reference_to_argument_in_doc(element) ==
    Rendered(<<"<paramref name=" \o quoteattr(csharp_argument_name(element.target.name))
               \o " />">>)

\* _ElementRenderer.transform_reference_to_constraint_in_doc
transform_reference_to_constraint_in_doc(element) ==
    Rendered(<<"Constraint " \o element.target.name>>)

\* _ElementRenderer.transform_reference_to_constant_in_doc
transform_reference_to_constant_in_doc(element) ==
    Rendered(<<"<see cref="
               \o quoteattr("Aas.Constants." \o csharp_property_name(element.target.name))
               \o " />">>)

\* _ElementRenderer.transform_literal
transform_literal(element) == Rendered(<<"<c>">> \o escape(element.text) \o <<"</c>">>)

\* DocutilsElementTransformer.transform with the methods of _ElementRenderer
\* which transform the children of the element.
RECURSIVE transform(_)
transform(element) ==
    LET children == [i \in DOMAIN element.children |-> transform(element.children[i])]
        failing == {i \in DOMAIN children : children[i].errors # Null}
        first == CHOOSE i \in failing : \A j \in failing : i <= j
        errors == Concat([i \in DOMAIN children |->
                            IF children[i].errors # Null
                            THEN children[i].errors[1] ELSE <<>>])
        parts == SelectSeq(children, LAMBDA child : child.errors = Null)
        texts == [i \in DOMAIN parts |-> parts[i].text[1]]
    IN  CASE element.tag = "Text" -> transform_text(element)
          [] element.tag = "ReferenceToOurType" ->
                transform_reference_to_our_type_in_doc(element)
          [] element.tag = "ReferenceToAttribute" ->
                transform_reference_to_attribute_in_doc(element)
          [] element.tag = "ReferenceToArgument" ->
                transform_reference_to_argument_in_doc(element)
          [] element.tag = "ReferenceToConstraint" ->
                transform_reference_to_constraint_in_doc(element)
          [] element.tag = "ReferenceToConstant" ->
                transform_reference_to_constant_in_doc(element)
          [] element.tag = "literal" -> transform_literal(element)
          [] element.tag = "paragraph" ->
                IF failing # {} THEN Unrendered(children[first].errors[1])
                ELSE Rendered(Concat(texts))
          [] element.tag = "emphasis" ->
                IF failing # {} THEN Unrendered(children[first].errors[1])
                ELSE Rendered(<<"<em>">> \o Concat(texts) \o <<"</em>">>)
          [] element.tag = "list_item" ->
                IF Len(errors) > 0 THEN Unrendered(errors)
                ELSE Rendered(<<"<li>">> \o Concat(texts) \o <<"</li>">>)
          [] element.tag = "bullet_list" ->
                IF Len(errors) > 0 THEN Unrendered(errors)
                ELSE Rendered(<<"<ul>", NewLine>>
                              \o Concat([i \in DOMAIN texts |-> texts[i] \o <<NewLine>>])
                              \o <<"</ul>">>)
          [] element.tag \in {"note", "reference"} ->
                IF Len(errors) > 0 THEN Unrendered(errors)
                ELSE Rendered(Concat(texts))
          [] element.tag \in {"field_body", "document"} ->
                IF Len(element.children) = 0 THEN Rendered(<<>>)
                ELSE IF Len(element.children) = 1 THEN children[1]
                ELSE IF Len(errors) > 0 THEN Unrendered(errors)
                ELSE Rendered(str_join(<<NewLine, NewLine>>, texts))

\* description._slash_slash_slash_line, with its precondition
_slash_slash_slash_line(line) ==
    IF \E i \in DOMAIN line : line[i] = NewLine
    THEN Raises("icontract.ViolationError")
    ELSE IF Len(line) = 0
    THEN Returns(<<"///">>)
    ELSE Returns(<<"///", " ">> \o line)

\* errors.extend(Error(description.parsed.node, message) for message in ...)
\* for each of the results in turn which has errors
ErrorsOf(results) ==
    Concat([i \in DOMAIN results |->
              IF results[i].errors # Null
              THEN [j \in DOMAIN results[i].errors[1] |-> Error(results[i].errors[1][j])]
              ELSE <<>>])

\* The pair (comment, errors) which a generator of a comment returns.
Comment(comment) == [comment |-> Some(comment), errors |-> Null]

NoComment(errors) == [comment |-> Null, errors |-> Some(errors)]

\* The end of the generators: every line of every block behind "///".
CommentedLines(blocks) ==
    LET lines == Concat([b \in DOMAIN blocks |-> splitlines(blocks[b])])
        commented_lines == [i \in DOMAIN lines |-> _slash_slash_slash_line(lines[i])]
    IN  IF \E i \in DOMAIN commented_lines : commented_lines[i].thrown # ""
        THEN Raises("icontract.ViolationError")
        ELSE Returns(Comment(str_join(<<NewLine>>,
                         [i \in DOMAIN commented_lines |-> commented_lines[i].result[1]])))

\* The blocks <summary> and <remarks>
SummaryBlock(summary) == <<"<summary>", NewLine>> \o summary \o <<NewLine, "</summary>">>

RemarksBlock(remarks) ==
    <<"<remarks>", NewLine>> \o str_join(<<NewLine, NewLine>>, remarks)
    \o <<NewLine, "</remarks>">>

\* The remarks which were rendered, in their order.
RenderedOf(results) ==
    LET rendered == SelectSeq(results, LAMBDA result : result.errors = Null)
    IN  [i \in DOMAIN rendered |-> rendered[i].text[1]]

\* description._generate_summary_remarks
_generate_summary_remarks(description) ==
    LET summary == transform(description.summary)
        remarks == [i \in DOMAIN description.remarks |-> transform(description.remarks[i])]
        errors == ErrorsOf(<<summary>>) \o ErrorsOf(remarks)
        blocks == <<SummaryBlock(summary.text[1])>>
                  \o (IF Len(RenderedOf(remarks)) > 0
                      THEN <<RemarksBlock(RenderedOf(remarks))>> ELSE <<>>)
    IN  IF Len(errors) > 0 THEN Returns(NoComment(errors))
        ELSE CommentedLines(blocks)

\* The constraints which were rendered: "Constraint <identifier>:" and the
\* body on the next line.
ConstraintsOf(description, bodies) ==
    LET rendered == SelectSeq([i \in DOMAIN bodies |-> i], LAMBDA i : bodies[i].errors = Null)
    IN  [k \in DOMAIN rendered |->
            <<"Constraint ">> \o escape(description.constraints_by_identifier[rendered[k]][1])
            \o <<":", NewLine>> \o bodies[rendered[k]].text[1]]

\* The remark "Constraints:" with the list of the constraints.
ConstraintsRemark(constraints) ==
    <<"Constraints:", NewLine, "<ul>", NewLine>>
    \o Concat([i \in DOMAIN constraints |->
                 indent(<<"<li>", NewLine>> \o constraints[i]
                        \o <<NewLine, "</li>", NewLine>>, I)])
    \o <<"</ul>">>

\* _generate_summary_remarks_constraints which returns the errors of the
\* summary without looking further.
_generate_summary_remarks_constraints_FailFast(description) ==
    LET summary == transform(description.summary)
        remarks == [i \in DOMAIN description.remarks |-> transform(description.remarks[i])]
        bodies == [i \in DOMAIN description.constraints_by_identifier |->
                     transform(description.constraints_by_identifier[i][2])]
        errors == ErrorsOf(<<summary>>) \o ErrorsOf(remarks) \o ErrorsOf(bodies)
        constraints == ConstraintsOf(description, bodies)
        all_remarks == RenderedOf(remarks)
                       \o (IF Len(constraints) > 0
                           THEN <<ConstraintsRemark(constraints)>> ELSE <<>>)
        blocks == <<SummaryBlock(summary.text[1])>>
                  \o (IF Len(all_remarks) > 0 THEN <<RemarksBlock(all_remarks)>> ELSE <<>>)
    IN  IF summary.errors # Null THEN Returns(NoComment(ErrorsOf(<<summary>>)))
        ELSE IF Len(errors) > 0 THEN Returns(NoComment(errors))
        ELSE CommentedLines(blocks)

\* description._generate_summary_remarks_constraints
_generate_summary_remarks_constraints(description) ==
    LET summary == transform(description.summary)
        remarks == [i \in DOMAIN description.remarks |-> transform(description.remarks[i])]
        bodies == [i \in DOMAIN description.constraints_by_identifier |->
                     transform(description.constraints_by_identifier[i][2])]
        errors == ErrorsOf(<<summary>>) \o ErrorsOf(remarks) \o ErrorsOf(bodies)
        constraints == ConstraintsOf(description, bodies)
        all_remarks == RenderedOf(remarks)
                       \o (IF Len(constraints) > 0
                           THEN <<ConstraintsRemark(constraints)>> ELSE <<>>)
        blocks == <<SummaryBlock(summary.text[1])>>
                  \o (IF Len(all_remarks) > 0 THEN <<RemarksBlock(all_remarks)>> ELSE <<>>)
    IN  IF Len(errors) > 0 THEN Returns(NoComment(errors))
        ELSE CommentedLines(blocks)

\* description.generate_comment_for_meta_model, generate_comment_for_our_type,
\* generate_comment_for_property and generate_comment_for_enumeration_literal
generate_comment_for_meta_model(description) ==
    _generate_summary_remarks_constraints(description)

generate_comment_for_our_type(description) ==
    _generate_summary_remarks_constraints(description)

generate_comment_for_property(description) ==
    _generate_summary_remarks_constraints(description)

generate_comment_for_enumeration_literal(description) ==
    _generate_summary_remarks(description)

\* description.generate_comment_for_signature
generate_comment_for_signature(description) ==
    LET summary == transform(description.summary)
        remarks == [i \in DOMAIN description.remarks |-> transform(description.remarks[i])]
        bodies == [i \in DOMAIN description.arguments_by_name |->
                     transform(description.arguments_by_name[i][2])]
        returns == IF description.returns # Null
                   THEN <<transform(description.returns[1])>> ELSE <<>>
        errors == ErrorsOf(<<summary>>) \o ErrorsOf(remarks) \o ErrorsOf(bodies)
                  \o ErrorsOf(returns)
        rendered == SelectSeq([i \in DOMAIN bodies |-> i], LAMBDA i : bodies[i].errors = Null)
        params == [k \in DOMAIN rendered |->
                     <<"<param name="
                       \o quoteattr(description.arguments_by_name[rendered[k]][1])
                       \o ">", NewLine>>
                     \o bodies[rendered[k]].text[1] \o <<NewLine, "</param>">>]
        blocks == <<SummaryBlock(summary.text[1])>>
                  \o (IF Len(RenderedOf(remarks)) > 0
                      THEN <<RemarksBlock(RenderedOf(remarks))>> ELSE <<>>)
                  \o (IF Len(params) > 0 THEN <<str_join(<<NewLine>>, params)>> ELSE <<>>)
                  \o (IF returns # <<>>
                      THEN <<<<"<returns>", NewLine>> \o returns[1].text[1]
                             \o <<NewLine, "</returns>">>>>
                      ELSE <<>>)
    IN  IF Len(errors) > 0 THEN Returns(NoComment(errors))
        ELSE CommentedLines(blocks)

(***************************************************************************)
(* The descriptions given to the generators of the comments: the elements  *)
(* of docutils and of intermediate.doc, and the descriptions made of them. *)
(***************************************************************************)
\* The most remarks, constraints and arguments of a description.
MaxParts == 2

NoTarget == [kind |-> "", name |-> "", cls |-> "", member |-> ""]

Element(tag, children) ==
    [tag |-> tag, text |-> <<>>, target |-> NoTarget, children |-> children]

Text(text) == [tag |-> "Text", text |-> text, target |-> NoTarget, children |-> <<>>]

Literally(text) == [tag |-> "literal", text |-> text, target |-> NoTarget, children |-> <<>>]

Reference(tag, kind, name, cls, member) ==
    [tag |-> tag, text |-> <<>>,
     target |-> [kind |-> kind, name |-> name, cls |-> cls, member |-> member],
     children |-> <<>>]

\* Two lines of text with characters which XML escapes.
TwoLines == Text(<<"a ", "<", " b", NewLine, "&", "c">>)

PlaceholderOurType == Reference("ReferenceToOurType", "_PlaceholderOurType", "Lost", "", "")

PlaceholderAttribute ==
    Reference("ReferenceToAttribute", "_PlaceholderReferenceToAttribute", "Lost.x", "", "")

\* A paragraph with every reference which can be rendered.
References ==
    Element("paragraph",
        <<Reference("ReferenceToOurType", "Enumeration", "Color", "", ""),
          Reference("ReferenceToOurType", "ConstrainedPrimitive", "Non_empty_string", "", ""),
          Reference("ReferenceToOurType", "AbstractClass", "Shape", "", ""),
          Reference("ReferenceToOurType", "ConcreteClass", "Big_tag", "", ""),
          Reference("ReferenceToAttribute", "ReferenceToProperty", "Shape", "AbstractClass", "title"),
          Reference("ReferenceToAttribute", "ReferenceToProperty", "Item", "ConcreteClass", "some_flag"),
          Reference("ReferenceToAttribute", "ReferenceToEnumerationLiteral", "Color", "", "dark_red"),
          Reference("ReferenceToArgument", "", "some_flag", "", ""),
          Reference("ReferenceToConstraint", "", "AASd-001", "", ""),
          Reference("ReferenceToConstant", "", "title", "", "")>>)

\* A paragraph with two placeholders, of which it reports the first.
TwoPlaceholders ==
    Element("paragraph",
        <<Text(<<"a">>), PlaceholderOurType,
          Element("emphasis", <<PlaceholderAttribute>>)>>)

Plain == Element("paragraph", <<Text(<<"a">>), Element("emphasis", <<Literally(<<"<">>)>>)>>)

\* A list with two items which have a placeholder and one which has none.
FaultyList ==
    Element("bullet_list",
        <<Element("list_item", <<Element("paragraph", <<PlaceholderAttribute>>)>>),
          Element("list_item", <<Plain>>),
          Element("list_item", <<Plain, Element("paragraph", <<PlaceholderOurType>>)>>)>>)

BulletList ==
    Element("bullet_list",
        <<Element("list_item", <<Plain>>),
          Element("list_item", <<Element("paragraph", <<TwoLines>>)>>)>>)

Note == Element("note", <<Element("paragraph", <<Element("reference", <<TwoLines>>)>>)>>)

Summaries == {Plain, References, TwoPlaceholders, Element("paragraph", <<>>)}

Remarks == {Element("paragraph", <<TwoLines>>), BulletList, Note, FaultyList}

Bodies ==
    {Element("field_body", <<>>),
     Element("field_body", <<Plain>>),
     Element("field_body", <<Element("paragraph", <<TwoLines>>), BulletList>>),
     Element("field_body", <<TwoPlaceholders, FaultyList>>)}

\* An ordered dictionary: the pairs of a key and a body, no key twice.
Dictionaries(keys) ==
    {pairs \in SeqsUpTo(keys \X Bodies, MaxParts) :
        \A i, j \in DOMAIN pairs : pairs[i][1] = pairs[j][1] => i = j}

Description(kind, summary, remarks, constraints_by_identifier, arguments_by_name, returns) ==
    [kind |-> kind, summary |-> summary, remarks |-> remarks,
     constraints_by_identifier |-> constraints_by_identifier,
     arguments_by_name |-> arguments_by_name, returns |-> returns]

Descriptions(kind) ==
    CASE kind = "SummaryRemarksDescription" ->
            {Description(kind, summary, remarks, <<>>, <<>>, Null) :
                summary \in Summaries, remarks \in SeqsUpTo(Remarks, MaxParts)}
      [] kind = "SummaryRemarksConstraintsDescription" ->
            {Description(kind, summary, remarks, constraints, <<>>, Null) :
                summary \in Summaries, remarks \in SeqsUpTo(Remarks, MaxParts),
                constraints \in Dictionaries({<<"AASd-001">>, <<"A", "&", "B">>})}
      [] kind = "DescriptionOfSignature" ->
            {Description(kind, summary, remarks, <<>>, arguments, returns) :
                summary \in Summaries, remarks \in SeqsUpTo(Remarks, MaxParts),
                arguments \in Dictionaries({"x", "some_flag"}),
                returns \in {Null} \cup {Some(body) : body \in Bodies}}

(***************************************************************************)
(* The calls of the generators of the comments on one description.         *)
(***************************************************************************)
DescriptionInit ==
    /\ symbol_table = <<>>
    /\ spec_impls = {}
    /\ generated = [code |-> Null, errors |-> Null, thrown |-> ""]
    /\ runtime = FirstRuntime
    /\ routine = ""
    /\ node = JNull
    /\ that = Null
    /\ json = [result |-> Null, thrown |-> ""]
    /\ out = NotRun
    /\ facade = NotCalled
    /\ call = Idle
    /\ pc = "library"
    /\ \E kind \in {"SummaryRemarksDescription", "SummaryRemarksConstraintsDescription",
                    "DescriptionOfSignature"} :
          given \in {Given("description", description) : description \in Descriptions(kind)}
    /\ yielded = NothingYielded

GenerateSummaryRemarks ==
    /\ given.what = "description"
    /\ given.value.kind = "SummaryRemarksDescription"
    /\ Yield("_generate_summary_remarks", _generate_summary_remarks(given.value))

GenerateSummaryRemarksConstraints ==
    /\ given.what = "description"
    /\ given.value.kind = "SummaryRemarksConstraintsDescription"
    /\ Yield("_generate_summary_remarks_constraints",
             _generate_summary_remarks_constraints(given.value))

GenerateCommentForMetaModel ==
    /\ given.what = "description"
    /\ given.value.kind = "SummaryRemarksConstraintsDescription"
    /\ Yield("generate_comment_for_meta_model", generate_comment_for_meta_model(given.value))

GenerateCommentForOurType ==
    /\ given.what = "description"
    /\ given.value.kind = "SummaryRemarksConstraintsDescription"
    /\ Yield("generate_comment_for_our_type", generate_comment_for_our_type(given.value))

GenerateCommentForProperty ==
    /\ given.what = "description"
    /\ given.value.kind = "SummaryRemarksConstraintsDescription"
    /\ Yield("generate_comment_for_property", generate_comment_for_property(given.value))

GenerateCommentForEnumerationLiteral ==
    /\ given.what = "description"
    /\ given.value.kind = "SummaryRemarksDescription"
    /\ Yield("generate_comment_for_enumeration_literal",
             generate_comment_for_enumeration_literal(given.value))

GenerateCommentForSignature ==
    /\ given.what = "description"
    /\ given.value.kind = "DescriptionOfSignature"
    /\ Yield("generate_comment_for_signature", generate_comment_for_signature(given.value))

DescriptionNext ==
    \/ GenerateSummaryRemarks
    \/ GenerateSummaryRemarksConstraints
    \/ GenerateCommentForMetaModel
    \/ GenerateCommentForOurType
    \/ GenerateCommentForProperty
    \/ GenerateCommentForEnumerationLiteral
    \/ GenerateCommentForSignature

DescriptionSpec == DescriptionInit /\ [][DescriptionNext]_vars

(***************************************************************************)
(* C25: a generator of a documentation comment returns either the comment  *)
(* or the errors, never both and never neither.  The errors are the errors *)
(* of the summary, of every remark, of the body of every constraint or     *)
(* argument and of the body of the returns, all of them and in this order. *)
(* When there are none, every line of the comment starts with "///", a     *)
(* line which is empty is "///" alone, and no line with a new line was     *)
(* given to _slash_slash_slash_line (no call raised).                      *)
(***************************************************************************)
CommentGenerators ==
    {"_generate_summary_remarks", "_generate_summary_remarks_constraints",
     "generate_comment_for_meta_model", "generate_comment_for_our_type",
     "generate_comment_for_property", "generate_comment_for_enumeration_literal",
     "generate_comment_for_signature"}

\* The elements of a description which are rendered, in the order of the
\* generators.
RenderedElements(description) ==
    <<description.summary>> \o description.remarks
    \o [i \in DOMAIN description.constraints_by_identifier |->
           description.constraints_by_identifier[i][2]]
    \o [i \in DOMAIN description.arguments_by_name |-> description.arguments_by_name[i][2]]
    \o description.returns

\* The errors of all the elements of a description.
AllErrors(description) ==
    LET elements == RenderedElements(description)
    IN  ErrorsOf([i \in DOMAIN elements |-> transform(elements[i])])

C25_CommentOrAllErrors ==
    yielded.function \in CommentGenerators =>
        /\ yielded.thrown = ""
        /\ yielded.result # Null
        /\ LET comment == yielded.result[1].comment
               errors == yielded.result[1].errors
           IN  /\ (comment = Null) # (errors = Null)
               /\ errors # Null =>
                     /\ Len(errors[1]) > 0
                     /\ errors[1] = AllErrors(given.value)
               /\ comment # Null =>
                     /\ AllErrors(given.value) = <<>>
                     /\ \A k \in DOMAIN LinesBetween(comment[1]) :
                           LET line == LinesBetween(comment[1])[k]
                           IN  /\ line # <<>>
                               /\ Head(line) = "///"
                               /\ Len(line) = 1 \/ (Len(line) >= 3 /\ line[2] = " ")

\* The generator for a signature returned six errors: one of the summary,
\* two of a remark and three of the body of the returns.
C25_Witness ==
    /\ yielded.function = "generate_comment_for_signature"
    /\ given.value.summary = TwoPlaceholders
    /\ given.value.remarks = <<Note, FaultyList>>
    /\ given.value.returns = Some(Element("field_body", <<TwoPlaceholders, FaultyList>>))
    /\ yielded.result[1].comment = Null
    /\ Len(yielded.result[1].errors[1]) = 6
    /\ yielded.result[1].errors[1][1] =
          Error("Unexpected placeholder for our type: Lost; this is a bug")

\* The generator returned a comment with an empty line between two parts of
\* a body.
C25_WitnessOfComment ==
    /\ yielded.function = "_generate_summary_remarks_constraints"
    /\ yielded.result[1].comment # Null
    /\ \E k \in DOMAIN LinesBetween(yielded.result[1].comment[1]) :
          LinesBetween(yielded.result[1].comment[1])[k] = <<"///">>

====
